---- MODULE Spec2Model ----
(***************************************************************************)
(* The Webserver operator's reconciler (controllers package) against an     *)
(* object store, with the store's other actors as environment actions.      *)
(***************************************************************************)
EXTENDS Integers, Sequences, FiniteSets, TLC

(* ------------------------------ bounds --------------------------------- *)
\* the clock stops after MaxTime ticks
MaxTime == 2
\* clock ticks per second of the formatted timestamp
TicksPerSecond == 2
\* spec edits per owner object stop at this generation
MaxGeneration == 2
\* owner objects ever created (uids handed out by the store)
MaxUid == 1
\* the items pushed and enqueued are 1 .. MaxItem
MaxItem == 2
\* calls made on one stack or one queue
MaxCalls == 5
\* the longest slice searched
MaxLen == 4
\* the slices searched hold values 1 .. MaxValue
MaxValue == 3
\* goroutines calling GetInstance
MaxGoroutines == 2
\* the greatest MaxAttempts of a RetryConfig
MaxAttemptsBound == 5
\* the greatest BaseDelay, MaxDelay (in nanoseconds) and Multiplier of a
\* RetryConfig, and the greatest reading of the clock
MaxBaseDelay == 8
MaxMaxDelay == 16
MaxMultiplier == 2
MaxNow == 2
MaxWorkers == 2
MaxQueueSize == 1
MaxJobs == 2
MaxDirect == 1
MaxStages == 2
MaxInput == 2
MaxFanWorkers == 2
MaxObservers == 3
MaxEvents == 2
MaxWrap == 3

(* --------------------------- program constants ------------------------- *)
DefaultReplicas == 1
DefaultPort == 80
ServicePort == 80
RequeueAfterSeconds == 300

DefaultImage == "nginx:1.25"
DefaultServiceType == "ClusterIP"
DefaultTitle == "Webserver Operator Demo"
DefaultMessage == "Welcome to the Webserver Operator Demo!"
DefaultColor == "#f0f0f0"

(* ------------------------------ identities ----------------------------- *)
\* the namespace/name pairs reconcile requests are delivered for
Idents == {[namespace |-> "default", name |-> "web"]}

Kinds == {"Deployment", "ConfigMap", "Service"}

Suffix(kind) ==
    CASE kind = "Deployment" -> "-deployment"
      [] kind = "ConfigMap"  -> "-config"
      [] kind = "Service"    -> "-service"

\* mutant: the dependents are all put in one namespace
DepKeyOneNamespace(kind, namespace, name) ==
    [kind |-> kind, namespace |-> "default", name |-> name \o Suffix(kind)]

\* the store key of the dependent of `kind` that Reconcile builds for a webserver
DepKey(kind, namespace, name) ==
    [kind |-> kind, namespace |-> namespace, name |-> name \o Suffix(kind)]

Keys == {DepKey(k, o.namespace, o.name) : k \in Kinds, o \in Idents}

(* ------------------------------ data shapes ---------------------------- *)
NoLabels == [k \in {} |-> ""]

ZeroConfig == [title |-> "", message |-> "", color |-> ""]

ZeroSpec == [replicas |-> 0, image |-> "", port |-> 0, serviceType |-> "",
             config |-> ZeroConfig]

ZeroStatus == [conditions |-> <<>>, observedGeneration |-> 0,
               readyReplicas |-> 0, phase |-> ""]

\* a Webserver value; uid 0 is the zero value (no object)
NoWebserver == [name |-> "", namespace |-> "", uid |-> 0, generation |-> 0,
                spec |-> ZeroSpec, status |-> ZeroStatus]

\* every raw spec over two or three values per field, the zero value among them
AllRawSpecs ==
    [replicas : {0, 1, 2}, image : {"", "httpd:2.4"}, port : {0, 8080},
     serviceType : {"", "NodePort"},
     config : [title : {"", "Shop"}, message : {"", "Hello"}, color : {"", "#ffffff"}]]

\* the raw specs users submit while the reconciler runs: nothing set, all set
RawSpecs ==
    { ZeroSpec,
      [replicas |-> 2, image |-> "httpd:2.4", port |-> 8080, serviceType |-> "NodePort",
       config |-> [title |-> "Shop", message |-> "Hello", color |-> "#ffffff"]] }

ZeroDeploymentSpec ==
    [replicas |-> 0, selector |-> NoLabels,
     template |-> [labels |-> NoLabels, containers |-> <<>>, volumes |-> <<>>],
     strategy |-> ""]

ZeroServiceSpec ==
    [selector |-> NoLabels, ports |-> <<>>, type |-> "", clusterIP |-> ""]

\* the object Reconcile hands to CreateOrUpdate: name and namespace only
NewObject(kind) ==
    [exists |-> FALSE, labels |-> NoLabels, ownerReferences |-> <<>>,
     spec |-> CASE kind = "Deployment" -> ZeroDeploymentSpec
                [] kind = "Service"    -> ZeroServiceSpec
                [] kind = "ConfigMap"  -> <<>>,
     data |-> <<>>, readyReplicas |-> 0]

\* what one CreateOrUpdate call of a pass returned (not yet called)
NoOutcome == [attempted |-> FALSE, op |-> "unchanged", err |-> "nil"]

\* a Reconcile invocation before it starts: pc is the next store call, ws the
\* in-memory Webserver, result what Reconcile returned; the other fields record
\* what the pass did: whether the Webserver was found, each CreateOrUpdate's
\* outcome, the number of store writes, whether the status was written, the
\* ready count read from the Deployment, and whether the pass followed a
\* successful pass with no write by another actor since
IdlePass ==
    [pc |-> "idle", ws |-> NoWebserver, found |-> FALSE,
     outcome |-> [k \in Kinds |-> NoOutcome],
     writes |-> 0, statusWritten |-> FALSE, statusChanged |-> FALSE,
     observedReady |-> 0, priorConditions |-> 0,
     undisturbed |-> FALSE,
     result |-> [RequeueAfter |-> 0, err |-> "nil"]]

VARIABLES
    now,         \* the wall clock, in ticks
    nextUid,     \* the next uid the store hands out
    webservers,  \* the store's Webserver objects, by identity
    objects,     \* the store's dependents, by (kind, namespace, name)
    pass,        \* per identity: the Reconcile invocation in flight or last returned
    quiet,       \* per identity: the last pass succeeded and no other actor has written since
    lastSynth,   \* per dependent key: the owner values and the owned fields of the latest synthesis
    stack,       \* a Stack of the data-structures package
    stackLog,    \* the calls made on the stack so far, each with what it returned
    queue,       \* a Queue of the data-structures package
    queueLog,    \* the calls made on the queue so far, each with what it returned
    search,      \* one BinarySearch and one BinarySearchRecursive call on the same input
    sort,        \* one QuickSort call: the slice and the invocations still to run
    singleton,   \* the patterns package's instance and once, and the goroutines calling GetInstance
    retry,       \* one Retry call, its fn and its context
    pool,        \* a WorkerPool, its workers and one ProcessJobs call
    pipeline,    \* one Pipeline.Process call: its goroutines and channels
    bus,         \* an EventBus, its observers and the calls made on it
    classify     \* one IsRetryable call: its argument and how it ended

\* the variables of the reconciler and its store
reconcilerVars == <<now, nextUid, webservers, objects, pass, quiet, lastSynth>>

\* the variables of the patterns library's examples
dsVars == <<stack, stackLog, queue, queueLog, search>>

\* the variables of the patterns library's other examples
patternVars == <<sort, singleton, retry, pool, pipeline, bus, classify>>

libVars == <<dsVars, patternVars>>

\* all of them but one
exceptSort      == <<reconcilerVars, dsVars, singleton, retry, pool, pipeline, bus, classify>>
exceptSingleton == <<reconcilerVars, dsVars, sort, retry, pool, pipeline, bus, classify>>
exceptRetry     == <<reconcilerVars, dsVars, sort, singleton, pool, pipeline, bus, classify>>
exceptPool      == <<reconcilerVars, dsVars, sort, singleton, retry, pipeline, bus, classify>>
exceptPipeline  == <<reconcilerVars, dsVars, sort, singleton, retry, pool, bus, classify>>
exceptBus       == <<reconcilerVars, dsVars, sort, singleton, retry, pool, pipeline, classify>>
exceptClassify  == <<reconcilerVars, dsVars, sort, singleton, retry, pool, pipeline, bus>>

vars == <<now, nextUid, webservers, objects, pass, quiet, lastSynth,
          stack, stackLog, queue, queueLog, search,
          sort, singleton, retry, pool, pipeline, bus, classify>>

(* --------------------- the reconciler's pure functions ------------------ *)
\* mutant: the port default is forgotten
SetDefaultsNoPort(spec) ==
    [replicas    |-> IF spec.replicas = 0 THEN DefaultReplicas ELSE spec.replicas,
     image       |-> IF spec.image = "" THEN DefaultImage ELSE spec.image,
     port        |-> spec.port,
     serviceType |-> IF spec.serviceType = "" THEN DefaultServiceType ELSE spec.serviceType,
     config      |->
        [title   |-> IF spec.config.title = "" THEN DefaultTitle ELSE spec.config.title,
         message |-> IF spec.config.message = "" THEN DefaultMessage ELSE spec.config.message,
         color   |-> IF spec.config.color = "" THEN DefaultColor ELSE spec.config.color]]

\* Reconcile's "Set default values" block
SetDefaults(spec) ==
    [replicas    |-> IF spec.replicas = 0 THEN DefaultReplicas ELSE spec.replicas,
     image       |-> IF spec.image = "" THEN DefaultImage ELSE spec.image,
     port        |-> IF spec.port = 0 THEN DefaultPort ELSE spec.port,
     serviceType |-> IF spec.serviceType = "" THEN DefaultServiceType ELSE spec.serviceType,
     config      |->
        [title   |-> IF spec.config.title = "" THEN DefaultTitle ELSE spec.config.title,
         message |-> IF spec.config.message = "" THEN DefaultMessage ELSE spec.config.message,
         color   |-> IF spec.config.color = "" THEN DefaultColor ELSE spec.config.color]]

\* time.Now().Format("2006-01-02 15:04:05 MST"): the clock cut to whole seconds
FormatTime(t) == t \div TicksPerSecond

\* mutant: the instance label carries the application's name
LabelsWrongInstance(name) ==
    [k \in {"app", "instance", "managed-by"} |->
        CASE k = "app"        -> "webserver"
          [] k = "instance"   -> "webserver"
          [] k = "managed-by" -> "webserver-operator"]

\* the labels every dependent gets
Labels(name) ==
    [k \in {"app", "instance", "managed-by"} |->
        CASE k = "app"        -> "webserver"
          [] k = "instance"   -> name
          [] k = "managed-by" -> "webserver-operator"]

\* the selector and the pod-template labels
SelectorLabels(name) ==
    [k \in {"app", "instance"} |->
        CASE k = "app"      -> "webserver"
          [] k = "instance" -> name]

\* mutant: the owner's reference is appended on every call
SetControllerReferenceAppend(webserver, refs) ==
    Append(refs, [kind |-> "Webserver", name |-> webserver.name,
                  uid |-> webserver.uid, controller |-> TRUE])

\* ctrl.SetControllerReference: the owner's reference replaces the one to the
\* same object (kind and name, whatever its uid) or is appended
SetControllerReference(webserver, refs) ==
    LET ref == [kind |-> "Webserver", name |-> webserver.name,
                uid |-> webserver.uid, controller |-> TRUE]
        same(i) == refs[i].kind = ref.kind /\ refs[i].name = ref.name
    IN  IF \E i \in DOMAIN refs : same(i)
        THEN [i \in DOMAIN refs |-> IF same(i) THEN ref ELSE refs[i]]
        ELSE Append(refs, ref)

mutateDeployment(deployment, webserver) ==
    [deployment EXCEPT
        !.ownerReferences = SetControllerReference(webserver, @),
        !.labels = Labels(webserver.name),
        !.spec =
            [replicas |-> webserver.spec.replicas,
             selector |-> SelectorLabels(webserver.name),
             template |->
                [labels |-> SelectorLabels(webserver.name),
                 containers |->
                    <<[name |-> "webserver",
                       image |-> webserver.spec.image,
                       ports |-> <<[containerPort |-> webserver.spec.port, name |-> "http"]>>,
                       volumeMounts |-> <<[name |-> "html-content",
                                           mountPath |-> "/usr/share/nginx/html",
                                           readOnly |-> TRUE]>>]>>,
                 volumes |-> <<[name |-> "html-content",
                                configMap |-> webserver.name \o "-config"]>>],
             strategy |-> ""]]

\* mutant: the Service targets its own port, not the container's
mutateServiceOwnPort(service, webserver) ==
    [service EXCEPT
        !.ownerReferences = SetControllerReference(webserver, @),
        !.labels = Labels(webserver.name),
        !.spec =
            [selector |-> SelectorLabels(webserver.name),
             ports |-> <<[port |-> ServicePort, targetPort |-> ServicePort,
                          name |-> "http"]>>,
             type |-> webserver.spec.serviceType,
             clusterIP |-> ""]]

mutateService(service, webserver) ==
    [service EXCEPT
        !.ownerReferences = SetControllerReference(webserver, @),
        !.labels = Labels(webserver.name),
        !.spec =
            [selector |-> SelectorLabels(webserver.name),
             ports |-> <<[port |-> ServicePort, targetPort |-> webserver.spec.port,
                          name |-> "http"]>>,
             type |-> webserver.spec.serviceType,
             clusterIP |-> ""]]

\* the arguments fmt.Sprintf puts into the HTML template, in the template's order
HtmlContent(webserver, t) ==
    [title       |-> webserver.spec.config.title,
     color       |-> webserver.spec.config.color,
     heading     |-> webserver.spec.config.title,
     message     |-> webserver.spec.config.message,
     instance    |-> webserver.name,
     namespace   |-> webserver.namespace,
     replicas    |-> webserver.spec.replicas,
     image       |-> webserver.spec.image,
     port        |-> webserver.spec.port,
     serviceType |-> webserver.spec.serviceType,
     generated   |-> FormatTime(t)]

mutateConfigMap(configmap, webserver, t) ==
    [configmap EXCEPT
        !.ownerReferences = SetControllerReference(webserver, @),
        !.labels = Labels(webserver.name),
        !.data = [k \in {"index.html"} |-> HtmlContent(webserver, t)]]

\* the MutateFn closure Reconcile passes for each kind
Mutate(kind, obj, webserver, t) ==
    CASE kind = "Deployment" -> mutateDeployment(obj, webserver)
      [] kind = "ConfigMap"  -> mutateConfigMap(obj, webserver, t)
      [] kind = "Service"    -> mutateService(obj, webserver)

\* mutant: the two counts of the message are swapped
ReadyConditionSwapped(replicas, readyReplicas, t) ==
    IF readyReplicas # replicas
    THEN [type |-> "Ready", status |-> "False", reason |-> "ReplicasNotReady",
          message |-> [format |-> "Expected %d replicas, got %d",
                       args |-> <<readyReplicas, replicas>>],
          lastTransitionTime |-> FormatTime(t)]
    ELSE [type |-> "Ready", status |-> "True", reason |-> "ReconciliationSucceeded",
          message |-> [format |-> "Webserver is ready", args |-> <<>>],
          lastTransitionTime |-> FormatTime(t)]

\* updateStatus, after the Deployment was read: the status it leaves on the
\* in-memory webserver
ReadyCondition(replicas, readyReplicas, t) ==
    IF readyReplicas # replicas
    THEN [type |-> "Ready", status |-> "False", reason |-> "ReplicasNotReady",
          message |-> [format |-> "Expected %d replicas, got %d",
                       args |-> <<replicas, readyReplicas>>],
          lastTransitionTime |-> FormatTime(t)]
    ELSE [type |-> "Ready", status |-> "True", reason |-> "ReconciliationSucceeded",
          message |-> [format |-> "Webserver is ready", args |-> <<>>],
          lastTransitionTime |-> FormatTime(t)]

\* mutant: the new condition is appended to the conditions already there
updateStatusAppend(webserver, deployment, t) ==
    [webserver EXCEPT
        !.status.readyReplicas = deployment.readyReplicas,
        !.status.conditions =
            Append(@, ReadyCondition(webserver.spec.replicas, deployment.readyReplicas, t))]

updateStatus(webserver, deployment, t) ==
    [webserver EXCEPT
        !.status.readyReplicas = deployment.readyReplicas,
        !.status.conditions =
            <<ReadyCondition(webserver.spec.replicas, deployment.readyReplicas, t)>>]

(* ------------------------------ the store ------------------------------ *)
\* what a store call can do besides succeed
Faults == {"none", "get", "write"}

\* the address the store allocates to a new Service that brings none
AllocatedClusterIP == "10.96.0.10"

\* Create: the store persists the object and fills what it assigns itself
StoreCreate(kind, obj) ==
    IF kind = "Service" /\ obj.spec.clusterIP = ""
    THEN [obj EXCEPT !.exists = TRUE, !.spec.clusterIP = AllocatedClusterIP]
    ELSE [obj EXCEPT !.exists = TRUE]

\* Update: the stored object becomes the one sent; a Deployment's status is a
\* subresource and is not written by Update
StoreUpdate(cur, obj) == [obj EXCEPT !.readyReplicas = cur.readyReplicas]

\* controllerutil.CreateOrUpdate on the object stored at key (cur): what it
\* returns and what the store holds afterwards
CreateOrUpdate(kind, cur, webserver, t, fault) ==
    IF fault = "get"
    THEN [op |-> "unchanged", err |-> "StoreUnavailable", obj |-> cur, wrote |-> FALSE]
    ELSE IF ~cur.exists
    THEN IF fault = "write"
         THEN [op |-> "unchanged", err |-> "StoreUnavailable", obj |-> cur, wrote |-> FALSE]
         ELSE [op |-> "created", err |-> "nil",
               obj |-> StoreCreate(kind, Mutate(kind, NewObject(kind), webserver, t)),
               wrote |-> TRUE]
    ELSE LET obj == Mutate(kind, cur, webserver, t) IN
         IF obj = cur
         THEN [op |-> "unchanged", err |-> "nil", obj |-> cur, wrote |-> FALSE]
         ELSE IF fault = "write"
         THEN [op |-> "unchanged", err |-> "Conflict", obj |-> cur, wrote |-> FALSE]
         ELSE [op |-> "updated", err |-> "nil", obj |-> StoreUpdate(cur, obj),
               wrote |-> TRUE]

(* ------------------------- Reconcile, step by step --------------------- *)
\* mutant: a request for a missing Webserver is requeued
NotFoundResultRequeue == [RequeueAfter |-> RequeueAfterSeconds, err |-> "nil"]

\* mutant: an error is returned together with the periodic requeue
ErrorResultRequeue(err) == [RequeueAfter |-> RequeueAfterSeconds, err |-> err]

\* what Reconcile returns
NotFoundResult == [RequeueAfter |-> 0, err |-> "nil"]
\* mutant: the error is logged and not returned
ErrorResultSwallowed(err) == [RequeueAfter |-> 0, err |-> "nil"]
ErrorResult(err) == [RequeueAfter |-> 0, err |-> err]
SuccessResult == [RequeueAfter |-> RequeueAfterSeconds, err |-> "nil"]

\* return from Reconcile: the in-memory webserver goes out of scope
Return(p, res) == [p EXCEPT !.pc = "done", !.result = res, !.ws = NoWebserver]

\* the identity whose dependents' keys include key
OwnerOf(key) ==
    CHOOSE o \in Idents : \E k \in Kinds : DepKey(k, o.namespace, o.name) = key

\* the fields of a dependent that the mutate functions set, the generated
\* timestamp text left out
OwnedFields(kind, key, obj) ==
    [name |-> key.name, namespace |-> key.namespace, labels |-> obj.labels,
     ownerReferences |-> obj.ownerReferences,
     spec |-> obj.spec,
     data |-> IF kind = "ConfigMap"
              THEN [k \in DOMAIN obj.data |-> [obj.data[k] EXCEPT !.generated = 0]]
              ELSE obj.data]

\* the field values of the owner that synthesis reads
OwnerValues(webserver) ==
    [name |-> webserver.name, namespace |-> webserver.namespace,
     uid |-> webserver.uid, spec |-> webserver.spec]

\* no synthesis yet for key
NoSynth(key) ==
    [owner |-> OwnerValues(NoWebserver),
     owned |-> OwnedFields(key.kind, key, NewObject(key.kind))]

\* mutant: the observed generation is not recorded
InitStatusNoGeneration(webserver) ==
    [webserver EXCEPT !.status.phase = "Reconciling"]

\* "Update the status": the in-memory status fields set right after defaulting
InitStatus(webserver) ==
    [webserver EXCEPT !.status.observedGeneration = webserver.generation,
                      !.status.phase = "Reconciling"]

\* r.Get of the Webserver, defaulting, and the first in-memory status fields
ReconcileFetch(o) ==
    /\ pass[o].pc \in {"idle", "done"}
    /\ \E fault \in {"none", "get"} :
        LET p == [IdlePass EXCEPT !.undisturbed = quiet[o]] IN
        IF fault = "get"
        THEN /\ pass' = [pass EXCEPT ![o] = Return(p, ErrorResult("StoreUnavailable"))]
             /\ quiet' = [quiet EXCEPT ![o] = FALSE]
        ELSE IF webservers[o].uid = 0
        THEN /\ pass' = [pass EXCEPT ![o] = Return(p, NotFoundResult)]
             /\ quiet' = [quiet EXCEPT ![o] = FALSE]
        ELSE /\ pass' = [pass EXCEPT ![o] =
                    [p EXCEPT !.pc = "deployment", !.found = TRUE,
                              !.priorConditions = Len(webservers[o].status.conditions),
                              !.ws = InitStatus([webservers[o] EXCEPT
                                                   !.spec = SetDefaults(@)])]]
             /\ UNCHANGED quiet
    /\ UNCHANGED <<now, nextUid, webservers, objects, lastSynth, libVars>>

\* mutant: a failed CreateOrUpdate is logged and the pass goes on
AfterCreateOrUpdateContinue(p, err, next) == [p EXCEPT !.pc = next]

\* Reconcile's "if err != nil { return ctrl.Result{}, err }" after a CreateOrUpdate
AfterCreateOrUpdate(p, err, next) ==
    IF err # "nil" THEN Return(p, ErrorResult(err)) ELSE [p EXCEPT !.pc = next]

\* one ctrl.CreateOrUpdate call of Reconcile and the early return that follows it
ReconcileDependent(o, kind, here, next) ==
    /\ pass[o].pc = here
    /\ \E fault \in Faults :
        LET p    == pass[o]
            key  == DepKey(kind, p.ws.namespace, p.ws.name)
            cur  == objects[key]
            r    == CreateOrUpdate(kind, cur, p.ws, now, fault)
            base == IF cur.exists THEN cur ELSE NewObject(kind)
            q    == [p EXCEPT !.outcome[kind] = [attempted |-> TRUE, op |-> r.op, err |-> r.err],
                              !.writes = IF r.wrote THEN @ + 1 ELSE @]
        IN  /\ objects' = [objects EXCEPT ![key] = r.obj]
            /\ lastSynth' =
                 IF fault = "get" THEN lastSynth
                 ELSE [lastSynth EXCEPT ![key] =
                        [owner |-> OwnerValues(p.ws),
                         owned |-> OwnedFields(kind, key, Mutate(kind, base, p.ws, now))]]
            /\ pass' = [pass EXCEPT ![o] = AfterCreateOrUpdate(q, r.err, next)]
            /\ quiet' = [quiet EXCEPT ![o] = @ /\ r.err = "nil"]
    /\ UNCHANGED <<now, nextUid, webservers, libVars>>

ReconcileDeployment(o) == ReconcileDependent(o, "Deployment", "deployment", "configmap")
ReconcileConfigMap(o)  == ReconcileDependent(o, "ConfigMap", "configmap", "service")
ReconcileService(o)    == ReconcileDependent(o, "Service", "service", "updateStatus")

\* the call of updateStatus: r.Get of the Deployment, then the in-memory status
ReconcileUpdateStatus(o) ==
    /\ pass[o].pc = "updateStatus"
    /\ \E fault \in {"none", "get"} :
        LET p   == pass[o]
            dep == objects[DepKey("Deployment", p.ws.namespace, p.ws.name)]
        IN  IF fault = "get" \/ ~dep.exists
            THEN /\ pass' = [pass EXCEPT ![o] =
                        Return(p, ErrorResult(IF fault = "get" THEN "StoreUnavailable"
                                              ELSE "NotFound"))]
                 /\ quiet' = [quiet EXCEPT ![o] = FALSE]
            ELSE /\ pass' = [pass EXCEPT ![o] =
                        [p EXCEPT !.pc = "statusUpdate",
                                  !.observedReady = dep.readyReplicas,
                                  !.ws = updateStatus(p.ws, dep, now)]]
                 /\ UNCHANGED quiet
    /\ UNCHANGED <<now, nextUid, webservers, objects, lastSynth, libVars>>

\* the phase Reconcile sets before the final status write
FinalPhase(webserver) == "Ready"

\* the store rejects a status update made from a copy that is no longer current
Stale(webserver, stored) ==
    webserver.uid # stored.uid \/ webserver.generation # stored.generation

\* mutant: the update is sent to the object itself, not to its status
\* subresource, and persists the whole in-memory copy
StatusUpdateWholeObject(stored, webserver) == webserver

\* r.Status().Update: the status subresource takes the status of the object
\* sent and keeps the stored spec and metadata
StatusUpdate(stored, webserver) == [stored EXCEPT !.status = webserver.status]

\* "Update the final status": r.Status().Update and the return
ReconcileStatusWrite(o) ==
    /\ pass[o].pc = "statusUpdate"
    /\ \E fault \in {"none", "write"} :
        LET p      == pass[o]
            stored == webservers[o]
            err    == IF fault = "write" THEN "StoreUnavailable"
                      ELSE IF stored.uid = 0 THEN "NotFound"
                      ELSE IF Stale(p.ws, stored) THEN "Conflict"
                      ELSE "nil"
        IN  IF err # "nil"
            THEN /\ pass' = [pass EXCEPT ![o] = Return(p, ErrorResult(err))]
                 /\ quiet' = [quiet EXCEPT ![o] = FALSE]
                 /\ UNCHANGED webservers
            ELSE LET new == StatusUpdate(stored,
                                [p.ws EXCEPT !.status.phase = FinalPhase(p.ws)])
                 IN  /\ webservers' = [webservers EXCEPT ![o] = new]
                     /\ pass' = [pass EXCEPT ![o] =
                            Return([p EXCEPT !.writes = @ + 1, !.statusWritten = TRUE,
                                             !.statusChanged = (new # stored),
                                             !.undisturbed = @ /\ quiet[o]],
                                   SuccessResult)]
                 /\ quiet' = [quiet EXCEPT ![o] = TRUE]
    /\ UNCHANGED <<now, nextUid, objects, lastSynth, libVars>>

(* ------------------------ the store's other actors --------------------- *)
\* a user creates the Webserver object
CreateWebserver(o) ==
    /\ webservers[o].uid = 0
    /\ nextUid <= MaxUid
    /\ \E raw \in RawSpecs :
        webservers' = [webservers EXCEPT ![o] =
            [name |-> o.name, namespace |-> o.namespace, uid |-> nextUid,
             generation |-> 1, spec |-> raw, status |-> ZeroStatus]]
    /\ nextUid' = nextUid + 1
    /\ quiet' = [quiet EXCEPT ![o] = FALSE]
    /\ UNCHANGED <<now, objects, pass, lastSynth, libVars>>

\* a user edits the Webserver's spec: the store bumps the generation
UpdateWebserverSpec(o) ==
    /\ webservers[o].uid # 0
    /\ webservers[o].generation < MaxGeneration
    /\ \E raw \in RawSpecs \ {webservers[o].spec} :
        webservers' = [webservers EXCEPT ![o].spec = raw, ![o].generation = @ + 1]
    /\ quiet' = [quiet EXCEPT ![o] = FALSE]
    /\ UNCHANGED <<now, nextUid, objects, pass, lastSynth, libVars>>

\* a user deletes the Webserver object
DeleteWebserver(o) ==
    /\ webservers[o].uid # 0
    /\ webservers' = [webservers EXCEPT ![o] = NoWebserver]
    /\ quiet' = [quiet EXCEPT ![o] = FALSE]
    /\ UNCHANGED <<now, nextUid, objects, pass, lastSynth, libVars>>

\* the store's garbage collector removes a dependent whose owner is gone
GarbageCollect(key) ==
    /\ objects[key].exists
    /\ \E i \in DOMAIN objects[key].ownerReferences :
        LET ref == objects[key].ownerReferences[i] IN
        /\ ref.controller
        /\ \A o \in Idents :
              (o.namespace = key.namespace /\ o.name = ref.name)
                  => webservers[o].uid # ref.uid
    /\ objects' = [objects EXCEPT ![key] = NewObject(key.kind)]
    /\ quiet' = [quiet EXCEPT ![OwnerOf(key)] = FALSE]
    /\ UNCHANGED <<now, nextUid, webservers, pass, lastSynth, libVars>>

\* the workload controller reports the Deployment's ready replicas
DeploymentReadiness(key) ==
    /\ key.kind = "Deployment"
    /\ objects[key].exists
    /\ \E n \in 0 .. objects[key].spec.replicas :
        /\ n # objects[key].readyReplicas
        /\ objects' = [objects EXCEPT ![key].readyReplicas = n]
    /\ quiet' = [quiet EXCEPT ![OwnerOf(key)] = FALSE]
    /\ UNCHANGED <<now, nextUid, webservers, pass, lastSynth, libVars>>

\* another actor sets a Deployment spec field the reconciler does not synthesize
SetDeploymentStrategy(key) ==
    /\ key.kind = "Deployment"
    /\ objects[key].exists
    /\ objects[key].spec.strategy = ""
    /\ objects' = [objects EXCEPT ![key].spec.strategy = "Recreate"]
    /\ quiet' = [quiet EXCEPT ![OwnerOf(key)] = FALSE]
    /\ UNCHANGED <<now, nextUid, webservers, pass, lastSynth, libVars>>

\* time passes
Tick ==
    /\ now < MaxTime
    /\ now' = now + 1
    /\ UNCHANGED <<nextUid, webservers, objects, pass, quiet, lastSynth, libVars>>

(* ------------------- data structures: Stack and Queue ------------------ *)
\* the nil interface value; the items are the numbers from 1 on
Nil == 0
Items == 1 .. MaxItem

\* element i of a Go slice (indices from 0)
At(slice, i) == slice[i + 1]

NewStack == [items |-> <<>>]

StackIsEmpty(s) == Len(s.items) = 0

StackSize(s) == Len(s.items)

Push(s, item) == [s EXCEPT !.items = Append(@, item)]

\* mutant: Pop takes the item at the bottom
PopBottom(s) ==
    IF StackIsEmpty(s)
    THEN [s |-> s, ret |-> Nil]
    ELSE [s |-> [s EXCEPT !.items = Tail(@)], ret |-> At(s.items, 0)]

\* Pop: the stack it leaves and the item it returns
Pop(s) ==
    IF StackIsEmpty(s)
    THEN [s |-> s, ret |-> Nil]
    ELSE LET index == Len(s.items) - 1 IN
         [s |-> [s EXCEPT !.items = SubSeq(@, 1, index)], ret |-> At(s.items, index)]

Peek(s) ==
    IF StackIsEmpty(s) THEN Nil ELSE At(s.items, Len(s.items) - 1)

NewQueue == [items |-> <<>>]

QueueIsEmpty(q) == Len(q.items) = 0

QueueSize(q) == Len(q.items)

Enqueue(q, item) == [q EXCEPT !.items = Append(@, item)]

\* mutant: Dequeue takes the item at the rear
DequeueRear(q) ==
    IF QueueIsEmpty(q)
    THEN [q |-> q, ret |-> Nil]
    ELSE [q |-> [q EXCEPT !.items = SubSeq(@, 1, Len(@) - 1)],
          ret |-> At(q.items, Len(q.items) - 1)]

\* Dequeue: the queue it leaves and the item it returns
Dequeue(q) ==
    IF QueueIsEmpty(q)
    THEN [q |-> q, ret |-> Nil]
    ELSE [q |-> [q EXCEPT !.items = SubSeq(@, 2, Len(@))], ret |-> At(q.items, 0)]

Front(q) ==
    IF QueueIsEmpty(q) THEN Nil ELSE At(q.items, 0)

\* one call, as the caller saw it
Call(op, arg, ret) == [op |-> op, arg |-> arg, ret |-> ret]

\* a caller calls one method of the stack
DoPush ==
    /\ Len(stackLog) < MaxCalls
    /\ \E item \in Items :
        /\ stack' = Push(stack, item)
        /\ stackLog' = Append(stackLog, Call("Push", item, Nil))
    /\ UNCHANGED <<reconcilerVars, queue, queueLog, search, patternVars>>

DoPop ==
    /\ Len(stackLog) < MaxCalls
    /\ stack' = Pop(stack).s
    /\ stackLog' = Append(stackLog, Call("Pop", Nil, Pop(stack).ret))
    /\ UNCHANGED <<reconcilerVars, queue, queueLog, search, patternVars>>

DoPeek ==
    /\ Len(stackLog) < MaxCalls
    /\ stackLog' = Append(stackLog, Call("Peek", Nil, Peek(stack)))
    /\ UNCHANGED <<reconcilerVars, stack, queue, queueLog, search, patternVars>>

DoStackSize ==
    /\ Len(stackLog) < MaxCalls
    /\ stackLog' = Append(stackLog, Call("Size", Nil, StackSize(stack)))
    /\ UNCHANGED <<reconcilerVars, stack, queue, queueLog, search, patternVars>>

DoStackIsEmpty ==
    /\ Len(stackLog) < MaxCalls
    /\ stackLog' = Append(stackLog, Call("IsEmpty", Nil, StackIsEmpty(stack)))
    /\ UNCHANGED <<reconcilerVars, stack, queue, queueLog, search, patternVars>>

\* a caller calls one method of the queue
DoEnqueue ==
    /\ Len(queueLog) < MaxCalls
    /\ \E item \in Items :
        /\ queue' = Enqueue(queue, item)
        /\ queueLog' = Append(queueLog, Call("Enqueue", item, Nil))
    /\ UNCHANGED <<reconcilerVars, stack, stackLog, search, patternVars>>

DoDequeue ==
    /\ Len(queueLog) < MaxCalls
    /\ queue' = Dequeue(queue).q
    /\ queueLog' = Append(queueLog, Call("Dequeue", Nil, Dequeue(queue).ret))
    /\ UNCHANGED <<reconcilerVars, stack, stackLog, search, patternVars>>

DoFront ==
    /\ Len(queueLog) < MaxCalls
    /\ queueLog' = Append(queueLog, Call("Front", Nil, Front(queue)))
    /\ UNCHANGED <<reconcilerVars, stack, stackLog, queue, search, patternVars>>

DoQueueSize ==
    /\ Len(queueLog) < MaxCalls
    /\ queueLog' = Append(queueLog, Call("Size", Nil, QueueSize(queue)))
    /\ UNCHANGED <<reconcilerVars, stack, stackLog, queue, search, patternVars>>

DoQueueIsEmpty ==
    /\ Len(queueLog) < MaxCalls
    /\ queueLog' = Append(queueLog, Call("IsEmpty", Nil, QueueIsEmpty(queue)))
    /\ UNCHANGED <<reconcilerVars, stack, stackLog, queue, search, patternVars>>

(* ------------------------ algorithms: binary search -------------------- *)
\* the ascending slices of up to MaxLen values, duplicates allowed
SortedSlices ==
    {arr \in UNION {[1 .. n -> 1 .. MaxValue] : n \in 0 .. MaxLen} :
        \A i \in 1 .. Len(arr) - 1 : arr[i] <= arr[i + 1]}

\* the targets searched for: every value of the slices, one below, one above
Targets == 0 .. MaxValue + 1

\* no search called yet: the slice and the target, the loop of BinarySearch
\* (its bounds, the iterations begun, what it returned), and the innermost
\* invocation of BinarySearchRecursive (its bounds, its depth, what it returned)
NoSearch ==
    [arr |-> <<>>, target |-> 0,
     iter |-> [pc |-> "idle", left |-> 0, right |-> 0, steps |-> 0, ret |-> 0],
     rec  |-> [pc |-> "idle", left |-> 0, right |-> 0, depth |-> 0, ret |-> 0]]

\* mutant: the lower bound moves to mid, not past it
BinarySearchNoAdvance(arr, target, c) ==
    IF c.left <= c.right
    THEN LET mid == c.left + (c.right - c.left) \div 2 IN
         IF At(arr, mid) = target
         THEN [c EXCEPT !.pc = "done", !.ret = mid, !.steps = @ + 1]
         ELSE IF At(arr, mid) < target
         THEN [c EXCEPT !.left = mid, !.steps = @ + 1]
         ELSE [c EXCEPT !.right = mid - 1, !.steps = @ + 1]
    ELSE [c EXCEPT !.pc = "done", !.ret = -1, !.steps = @ + 1]

\* BinarySearch: one test of the loop condition and, if it holds, one run of
\* the loop body
BinarySearch(arr, target, c) ==
    IF c.left <= c.right
    THEN LET mid == c.left + (c.right - c.left) \div 2 IN
         IF At(arr, mid) = target
         THEN [c EXCEPT !.pc = "done", !.ret = mid, !.steps = @ + 1]
         ELSE IF At(arr, mid) < target
         THEN [c EXCEPT !.left = mid + 1, !.steps = @ + 1]
         ELSE [c EXCEPT !.right = mid - 1, !.steps = @ + 1]
    ELSE [c EXCEPT !.pc = "done", !.ret = -1, !.steps = @ + 1]

\* BinarySearchRecursive: one invocation, which returns (and every caller
\* above it returns the same value) or calls itself on narrower bounds
BinarySearchRecursive(arr, target, c) ==
    IF c.left > c.right
    THEN [c EXCEPT !.pc = "done", !.ret = -1]
    ELSE LET mid == c.left + (c.right - c.left) \div 2 IN
         IF At(arr, mid) = target
         THEN [c EXCEPT !.pc = "done", !.ret = mid]
         ELSE IF At(arr, mid) < target
         THEN [c EXCEPT !.left = mid + 1, !.depth = @ + 1]
         ELSE [c EXCEPT !.right = mid - 1, !.depth = @ + 1]

\* a caller passes one slice and one target to both functions
SearchCall ==
    /\ search.iter.pc = "idle"
    /\ \E arr \in SortedSlices : \E target \in Targets :
        search' = [arr |-> arr, target |-> target,
                   iter |-> [pc |-> "loop", left |-> 0, right |-> Len(arr) - 1,
                             steps |-> 0, ret |-> 0],
                   rec  |-> [pc |-> "call", left |-> 0, right |-> Len(arr) - 1,
                             depth |-> 1, ret |-> 0]]
    /\ UNCHANGED <<reconcilerVars, stack, stackLog, queue, queueLog, patternVars>>

BinarySearchLoop ==
    /\ search.iter.pc = "loop"
    /\ search' = [search EXCEPT !.iter = BinarySearch(search.arr, search.target, @)]
    /\ UNCHANGED <<reconcilerVars, stack, stackLog, queue, queueLog, patternVars>>

BinarySearchRecursiveCall ==
    /\ search.rec.pc = "call"
    /\ search' = [search EXCEPT !.rec = BinarySearchRecursive(search.arr, search.target, @)]
    /\ UNCHANGED <<reconcilerVars, stack, stackLog, queue, queueLog, patternVars>>

(* ----------------------------- QuickSort ------------------------------- *)
\* every slice of up to MaxLen values, in any order, duplicates allowed
Slices == UNION {[1 .. n -> 1 .. MaxValue] : n \in 0 .. MaxLen}

\* no sort called yet: the slice as passed, the backing array as it is now, the
\* invocations of QuickSort called and not yet run (each the subslice it was
\* given: where it starts in the backing array and its length; the next to run
\* first), and the invocations run so far
NoSort == [pc |-> "idle", input |-> <<>>, arr |-> <<>>, calls |-> <<>>, invocations |-> 0]

\* arr[i], arr[j] = arr[j], arr[i]
Swap(arr, i, j) ==
    [k \in 1 .. Len(arr) |->
        IF k = i + 1 THEN At(arr, j) ELSE IF k = j + 1 THEN At(arr, i) ELSE arr[k]]

\* the loop of partition from j on, the subslice starting at off in the
\* backing array, and what follows the loop
RECURSIVE partitionLoop(_, _, _, _, _, _)
partitionLoop(arr, off, i, j, right, pivot) ==
    IF j < right
    THEN IF At(arr, off + j) <= pivot
         THEN partitionLoop(Swap(arr, off + i + 1, off + j), off, i + 1, j + 1, right, pivot)
         ELSE partitionLoop(arr, off, i, j + 1, right, pivot)
    ELSE [arr |-> Swap(arr, off + i + 1, off + right), pivot |-> i + 1]

\* mutant: the pivot value is read from the left end
partitionPivotLeft(arr, off, left, right) ==
    partitionLoop(arr, off, left - 1, left, right, At(arr, off + left))

\* partition: the backing array it leaves and the index it returns
partition(arr, off, left, right) ==
    partitionLoop(arr, off, left - 1, left, right, At(arr, off + right))

\* a caller passes a slice to QuickSort
SortCall ==
    /\ sort.pc = "idle"
    /\ \E arr \in Slices :
        sort' = [pc |-> "running", input |-> arr, arr |-> arr,
                 calls |-> <<[off |-> 0, len |-> Len(arr)]>>, invocations |-> 0]
    /\ UNCHANGED exceptSort

\* one invocation of QuickSort up to its two recursive calls
QuickSort ==
    /\ sort.pc = "running"
    /\ sort.calls # <<>>
    /\ LET c == Head(sort.calls) IN
        IF c.len < 2
        THEN sort' = [sort EXCEPT !.calls = Tail(@), !.invocations = @ + 1]
        ELSE LET p == partition(sort.arr, c.off, 0, c.len - 1) IN
             sort' = [sort EXCEPT
                        !.arr = p.arr,
                        !.calls = <<[off |-> c.off, len |-> p.pivot],
                                    [off |-> c.off + p.pivot + 1,
                                     len |-> c.len - (p.pivot + 1)]>> \o Tail(@),
                        !.invocations = @ + 1]
    /\ UNCHANGED exceptSort

\* the outermost invocation returns to the caller
SortReturn ==
    /\ sort.pc = "running"
    /\ sort.calls = <<>>
    /\ sort' = [sort EXCEPT !.pc = "done"]
    /\ UNCHANGED exceptSort

(* ----------------------------- Singleton ------------------------------- *)
Goroutines == 1 .. MaxGoroutines

\* the data of a Singleton as GetInstance constructs it, and what callers set
InitialData == "Singleton instance created"
DataValues == {"test data", "other data"}

\* a goroutine that has not called GetInstance: where it is in GetInstance, the
\* reference GetInstance returned to it (0 is nil), what its last GetData
\* returned, what was the data last written when it called GetData, and whether
\* it went past the first test of once.Do and found once done under the mutex
NoGoroutine == [pc |-> "idle", ref |-> 0, got |-> "", expect |-> "", lost |-> FALSE]

\* the package at program start: instance is nil, once not done and its mutex
\* free (0) or held by a goroutine; heap holds the Singleton objects allocated
\* so far, a reference being an index in it; returned holds every reference
\* GetInstance has returned, written the data last passed to SetData
NoSingleton ==
    [instance |-> 0, once |-> [done |-> 0, m |-> 0], heap |-> <<>>,
     g |-> [i \in Goroutines |-> NoGoroutine],
     returned |-> {}, written |-> InitialData]

\* mutant: once.Do runs the function whenever it got past the first test
doSlowNoRecheck(done) == "construct"

\* once.Do after it took the mutex: the function runs only if once is still
\* not done
doSlow(done) == IF done = 0 THEN "construct" ELSE "unlock"

\* GetInstance is called; once.Do begins
GetInstanceCall(i) ==
    /\ singleton.g[i].pc \in {"idle", "has"}
    /\ singleton' = [singleton EXCEPT !.g[i].pc = "do"]
    /\ UNCHANGED exceptSingleton

\* once.Do: the first test of done
OnceDo(i) ==
    /\ singleton.g[i].pc = "do"
    /\ singleton' = [singleton EXCEPT
          !.g[i].pc = IF singleton.once.done = 0 THEN "lock" ELSE "return"]
    /\ UNCHANGED exceptSingleton

\* once.Do: o.m.Lock()
OnceLock(i) ==
    /\ singleton.g[i].pc = "lock"
    /\ singleton.once.m = 0
    /\ singleton' = [singleton EXCEPT !.once.m = i, !.g[i].pc = "locked"]
    /\ UNCHANGED exceptSingleton

\* once.Do: the second test of done, under the mutex
OnceDoSlow(i) ==
    /\ singleton.g[i].pc = "locked"
    /\ singleton' = [singleton EXCEPT !.g[i].pc = doSlow(singleton.once.done),
                                     !.g[i].lost = @ \/ singleton.once.done # 0]
    /\ UNCHANGED exceptSingleton

\* the function passed to once.Do: instance = &Singleton{...}
Construct(i) ==
    /\ singleton.g[i].pc = "construct"
    /\ singleton' = [singleton EXCEPT
          !.heap = Append(@, [data |-> InitialData]),
          !.instance = Len(singleton.heap) + 1,
          !.g[i].pc = "store"]
    /\ UNCHANGED exceptSingleton

\* once.Do: the deferred o.done.Store(1)
OnceStore(i) ==
    /\ singleton.g[i].pc = "store"
    /\ singleton' = [singleton EXCEPT !.once.done = 1, !.g[i].pc = "unlock"]
    /\ UNCHANGED exceptSingleton

\* once.Do: the deferred o.m.Unlock()
OnceUnlock(i) ==
    /\ singleton.g[i].pc = "unlock"
    /\ singleton' = [singleton EXCEPT !.once.m = 0, !.g[i].pc = "return"]
    /\ UNCHANGED exceptSingleton

\* return instance
GetInstanceReturn(i) ==
    /\ singleton.g[i].pc = "return"
    /\ singleton' = [singleton EXCEPT
          !.g[i].pc = "has", !.g[i].ref = singleton.instance,
          !.returned = @ \cup {singleton.instance}]
    /\ UNCHANGED exceptSingleton

\* s.SetData(data) through the reference the goroutine holds
SetData(i) ==
    /\ singleton.g[i].pc = "has"
    /\ singleton.g[i].ref # 0
    /\ \E data \in DataValues :
        singleton' = [singleton EXCEPT !.heap[singleton.g[i].ref].data = data,
                                       !.written = data]
    /\ UNCHANGED exceptSingleton

\* s.GetData() through the reference the goroutine holds
GetData(i) ==
    /\ singleton.g[i].pc = "has"
    /\ singleton.g[i].ref # 0
    /\ singleton' = [singleton EXCEPT
          !.g[i].got = singleton.heap[singleton.g[i].ref].data,
          !.g[i].expect = singleton.written]
    /\ UNCHANGED exceptSingleton

(* ------------------------------- Retry --------------------------------- *)
\* what Retry returns: nil, the context's error, or the error that wraps the
\* last failure of fn (err the failure wrapped; 0 is no error)
ReturnNil == [kind |-> "nil", err |-> 0]
ReturnCtxErr == [kind |-> "ctx.Err()", err |-> 0]
ReturnWrapped(lastErr) == [kind |-> "retry failed", err |-> lastErr]

\* no Retry called yet: config.MaxAttempts, the loop variable, lastErr, whether
\* the context is cancelled, and what Retry returned; outcomes holds what each
\* invocation of fn returned (0 is nil, k the error of the k-th invocation),
\* sleeps counts the delays begun; cancelledAt and callsAtCancel record where
\* Retry stood and how many invocations of fn it had made when the context
\* was cancelled
NoRetry ==
    [pc |-> "idle", MaxAttempts |-> 0, attempt |-> 0, lastErr |-> 0,
     cancelled |-> FALSE, ret |-> ReturnNil, outcomes |-> <<>>, sleeps |-> 0,
     cancelledAt |-> "none", callsAtCancel |-> 0,
     BaseDelay |-> 0, MaxDelay |-> 0, Multiplier |-> 0, Jitter |-> FALSE,
     delay |-> 0]

\* math.Pow for a whole base and exponent
RECURSIVE Pow(_, _)
Pow(x, n) == IF n = 0 THEN 1 ELSE x * Pow(x, n - 1)

\* math.Mod(float64(nanos), 1.0): the argument is a whole number
ModOne(nanos) == nanos % 1

\* "Cap at max delay"
CapAtMaxDelay(config, delay) ==
    IF delay > config.MaxDelay THEN config.MaxDelay ELSE delay

\* calculateDelay, in nanoseconds: the backoff, the cap, then the jitter
\* delay * 0.25 * (0.5 - math.Mod(nanos, 1.0)), counted in eighths of a
\* nanosecond, and the truncation of time.Duration(delay)
calculateDelay(config, attempt, nanos) ==
    LET delay == CapAtMaxDelay(config,
                    config.BaseDelay * Pow(config.Multiplier, attempt))
        jitter8 == delay * (1 - 2 * ModOne(nanos))
    IN  IF config.Jitter THEN (8 * delay + jitter8) \div 8 ELSE delay

\* mutant: no attempt is taken for the last one
IsLastAttemptNever(r) == FALSE

\* "Don't sleep after the last attempt"
IsLastAttempt(r) == r.attempt = r.MaxAttempts - 1

\* a caller calls Retry
RetryCall ==
    /\ retry.pc = "idle"
    /\ \E n \in 0 .. MaxAttemptsBound, base \in 1 .. MaxBaseDelay,
          max \in 1 .. MaxMaxDelay, multiplier \in 1 .. MaxMultiplier,
          jitter \in BOOLEAN :
        retry' = [retry EXCEPT !.pc = "loop", !.MaxAttempts = n,
                               !.BaseDelay = base, !.MaxDelay = max,
                               !.Multiplier = multiplier, !.Jitter = jitter]
    /\ UNCHANGED exceptRetry

\* the select on ctx.Done() with a default case at the top of the loop body
\* (mutant: the default case is always taken)
CheckContextNever(r) == [r EXCEPT !.pc = "fn"]
CheckContext(r) ==
    IF r.cancelled
    THEN [r EXCEPT !.pc = "done", !.ret = ReturnCtxErr]
    ELSE [r EXCEPT !.pc = "fn"]

\* the loop condition and the test of the context at the top of the loop body;
\* after the loop, the return of the wrapped error
RetryLoop ==
    /\ retry.pc = "loop"
    /\ retry' =
         IF retry.attempt < retry.MaxAttempts
         THEN CheckContext(retry)
         ELSE [retry EXCEPT !.pc = "done", !.ret = ReturnWrapped(retry.lastErr)]
    /\ UNCHANGED exceptRetry

\* err := fn() and what follows it up to the delay
RetryFn ==
    /\ retry.pc = "fn"
    /\ \E err \in {0, Len(retry.outcomes) + 1}, nanos \in 0 .. MaxNow :
        LET r == [retry EXCEPT !.outcomes = Append(@, err)] IN
        retry' =
          IF err = 0
          THEN [r EXCEPT !.pc = "done", !.ret = ReturnNil]
          ELSE IF IsLastAttempt(r)
          THEN [r EXCEPT !.lastErr = err, !.pc = "done", !.ret = ReturnWrapped(err)]
          ELSE [r EXCEPT !.lastErr = err, !.pc = "sleep", !.sleeps = @ + 1,
                         !.delay = calculateDelay(r, r.attempt, nanos)]
    /\ UNCHANGED exceptRetry

\* the select on time.After(delay) and ctx.Done(): either case that is ready
RetrySleep ==
    /\ retry.pc = "sleep"
    /\ \/ retry' = [retry EXCEPT !.pc = "loop", !.attempt = @ + 1]
       \/ /\ retry.cancelled
          /\ retry' = [retry EXCEPT !.pc = "done", !.ret = ReturnCtxErr]
    /\ UNCHANGED exceptRetry

\* the caller's context is cancelled
RetryCancel ==
    /\ retry.pc \notin {"idle", "done"}
    /\ ~retry.cancelled
    /\ retry' = [retry EXCEPT !.cancelled = TRUE,
                              !.cancelledAt = retry.pc,
                              !.callsAtCancel = Len(retry.outcomes)]
    /\ UNCHANGED exceptRetry

(* ---------------------------- IsRetryable ------------------------------ *)
\* an error value: the *RetryableError wrappers around it, outermost first
\* (each by its Retryable flag), and the innermost error, 0 for nil and a
\* message number for an error of errors.New
NilErr == [wraps |-> <<>>, base |-> 0]
ErrorsNew(m) == [wraps |-> <<>>, base |-> m]
NewRetryableError(err) == [err EXCEPT !.wraps = <<TRUE>> \o @]
NewNonRetryableError(err) == [err EXCEPT !.wraps = <<FALSE>> \o @]

\* IsRetryable: false for every non-nil error; for nil the Retryable field
\* is read through the nil pointer retryableErr, a run-time panic
IsRetryable(err) == IF err # NilErr THEN "false" ELSE "panic"

\* no error built, nothing classified
NoClassify == [pc |-> "idle", err |-> NilErr, ret |-> "none"]

ErrorsNewCall ==
    /\ classify.pc # "panicked"
    /\ \E m \in 1 .. MaxValue :
          classify' = [pc |-> "built", err |-> ErrorsNew(m), ret |-> "none"]
    /\ UNCHANGED exceptClassify

NewRetryableErrorCall ==
    /\ classify.pc # "panicked"
    /\ Len(classify.err.wraps) < MaxWrap
    /\ classify' = [pc |-> "built", err |-> NewRetryableError(classify.err),
                    ret |-> "none"]
    /\ UNCHANGED exceptClassify

NewNonRetryableErrorCall ==
    /\ classify.pc # "panicked"
    /\ Len(classify.err.wraps) < MaxWrap
    /\ classify' = [pc |-> "built",
                    err |-> NewNonRetryableError(classify.err),
                    ret |-> "none"]
    /\ UNCHANGED exceptClassify

\* IsRetryable is called with the error built so far (nil when none was)
IsRetryableCall ==
    /\ classify.pc \in {"idle", "built"}
    /\ LET ret == IsRetryable(classify.err)
       IN  classify' = [classify EXCEPT
              !.pc = IF ret = "panic" THEN "panicked" ELSE "returned",
              !.ret = ret]
    /\ UNCHANGED exceptClassify

(* ----------------------------- WorkerPool ------------------------------ *)
\* the nil interface value and the nil error of a results / errors slot
NilResult == <<>>
NilError == "nil"
\* ctx.Err() of a cancelled context
CtxErr == "context canceled"

\* a Job value: the caller's ID and Data; idx names the Result and Error
\* channels ProcessJobs made for the batch entry it was copied from
JobValues == [ID : 0 .. MaxJobs - 1, Data : Items]
Batches == UNION {[1 .. n -> JobValues] : n \in 0 .. MaxJobs}

\* processJob: the formatted string, and a nil error
processJob(w, job) ==
    [result |-> <<w.ID, job.ID, job.Data>>, err |-> NilError]

NewWorker(id) == [ID |-> id, pc |-> "new", job |-> <<>>]

\* no pool yet
NoPool ==
    [pc |-> "idle", NumWorkers |-> 0, size |-> 0, JobQueue |-> <<>>,
     Workers |-> <<>>, jobs |-> <<>>, i |-> 0, results |-> <<>>,
     errors |-> <<>>, Result |-> <<>>, Error |-> <<>>, cancelled |-> FALSE,
     processedBy |-> <<>>, stopped |-> 0, direct |-> <<>>, maxBusy |-> 0]

NewWorkerPool(numWorkers, jobQueueSize) ==
    [NoPool EXCEPT !.pc = "created",
                   !.NumWorkers = numWorkers,
                   !.size = jobQueueSize,
                   !.Workers = [k \in 1 .. numWorkers |-> NewWorker(k - 1)]]

\* what a receive leaves in the job queue (mutant: the job stays queued)
TakeJobKeep(q) == q
TakeJob(q) == Tail(q)

NewWorkerPoolCall ==
    /\ pool.pc = "idle"
    /\ \E n \in 0 .. MaxWorkers, size \in 0 .. MaxQueueSize :
          pool' = NewWorkerPool(n, size)
    /\ UNCHANGED exceptPool

\* WorkerPool.Start: every worker's goroutine runs and waits in its select
PoolStart ==
    /\ pool.pc = "created"
    /\ pool' = [pool EXCEPT
          !.pc = "started",
          !.Workers = [k \in 1 .. pool.NumWorkers |->
                          [pool.Workers[k] EXCEPT !.pc = "select"]]]
    /\ UNCHANGED exceptPool

\* ProcessJobs is called: the two slices are made
ProcessJobsCall ==
    /\ pool.pc = "started"
    /\ \E jobs \in Batches :
          pool' = [pool EXCEPT
              !.pc = IF Len(jobs) = 0 THEN "returned" ELSE "makeJob",
              !.jobs = jobs,
              !.i = 0,
              !.results = [k \in 1 .. Len(jobs) |-> NilResult],
              !.errors = [k \in 1 .. Len(jobs) |-> NilError],
              !.Result = [k \in 1 .. Len(jobs) |-> <<>>],
              !.Error = [k \in 1 .. Len(jobs) |-> <<>>],
              !.processedBy = [k \in 1 .. Len(jobs) |-> <<>>]]
    /\ UNCHANGED exceptPool

\* the job of this iteration, with the channels made for it
CurrentJob == [ID |-> At(pool.jobs, pool.i).ID,
               Data |-> At(pool.jobs, pool.i).Data,
               idx |-> pool.i + 1]

\* a Job handed to SubmitJob as a literal: its Result and Error channels are
\* nil (idx 0 names no channel)
DirectJob(job) == [ID |-> job.ID, Data |-> job.Data, idx |-> 0]

\* the batch jobs that workers are processing at this moment
Busy(workers) ==
    Cardinality({k \in DOMAIN workers :
                    workers[k].pc = "processing" /\ workers[k].job.idx # 0})

\* a caller other than ProcessJobs calls SubmitJob with a Job literal
DirectSubmitCall ==
    /\ pool.pc \in {"started", "makeJob", "submit", "wait", "returned"}
    /\ Len(pool.direct) < MaxDirect
    /\ \E job \in JobValues :
          pool' = [pool EXCEPT !.direct = Append(@, [pc |-> "submit",
                                                    job |-> DirectJob(job)])]
    /\ UNCHANGED exceptPool

\* that caller's send on the job queue completes
DirectSubmit(d) ==
    /\ d \in DOMAIN pool.direct
    /\ pool.direct[d].pc = "submit"
    /\ Len(pool.JobQueue) < pool.size
    /\ pool' = [pool EXCEPT !.direct[d].pc = "done",
                            !.JobQueue = Append(@, pool.direct[d].job)]
    /\ UNCHANGED exceptPool

\* the loop head: the two channels of the job are made
ProcessJobsMakeJob ==
    /\ pool.pc = "makeJob"
    /\ pool' = [pool EXCEPT !.pc = "submit"]
    /\ UNCHANGED exceptPool

\* mutant: a job is not sent once the context is cancelled
SubmitJobUnlessCancelled ==
    /\ pool.pc = "submit"
    /\ IF pool.cancelled
       THEN pool' = [pool EXCEPT !.pc = "wait"]
       ELSE /\ Len(pool.JobQueue) < pool.size
            /\ pool' = [pool EXCEPT !.pc = "wait",
                                    !.JobQueue = Append(@, CurrentJob)]
    /\ UNCHANGED exceptPool

\* SubmitJob: the send completes when the queue's buffer has room
SubmitJob ==
    /\ pool.pc = "submit"
    /\ Len(pool.JobQueue) < pool.size
    /\ pool' = [pool EXCEPT !.pc = "wait",
                            !.JobQueue = Append(@, CurrentJob)]
    /\ UNCHANGED exceptPool

\* the pool p once worker k holds job; maxBusy keeps the largest number of
\* batch jobs that were in processing at one moment
Received(p, k, job) ==
    LET q == [p EXCEPT !.Workers[k] = [@ EXCEPT !.pc = "processing",
                                                !.job = job]]
    IN  [q EXCEPT !.maxBusy = IF Busy(q.Workers) > @ THEN Busy(q.Workers)
                              ELSE @]

\* a worker's select receives a job: from the buffer, or straight from a
\* sender (ProcessJobs or another caller of SubmitJob) blocked on a queue
\* without buffer
WorkerReceive(k) ==
    /\ k \in 1 .. pool.NumWorkers
    /\ pool.Workers[k].pc = "select"
    /\ \/ /\ pool.JobQueue # <<>>
          /\ pool' = Received([pool EXCEPT !.JobQueue = TakeJob(@)], k,
                              Head(pool.JobQueue))
       \/ /\ pool.JobQueue = <<>>
          /\ pool.size = 0
          /\ pool.pc = "submit"
          /\ pool' = Received([pool EXCEPT !.pc = "wait"], k, CurrentJob)
       \/ /\ pool.JobQueue = <<>>
          /\ pool.size = 0
          /\ \E d \in DOMAIN pool.direct :
                /\ pool.direct[d].pc = "submit"
                /\ pool' = Received([pool EXCEPT !.direct[d].pc = "done"], k,
                                    pool.direct[d].job)
    /\ UNCHANGED exceptPool

\* the worker has processed its job and sends the outcome on the job's
\* channel: a channel ProcessJobs made (capacity 1, one send per job: the
\* send never blocks), or the nil channel of a Job literal, on which the
\* send blocks for ever
WorkerProcess(k) ==
    /\ k \in 1 .. pool.NumWorkers
    /\ pool.Workers[k].pc = "processing"
    /\ LET w == pool.Workers[k]
           job == w.job
           out == processJob(w, job)
       IN  IF job.idx = 0
           THEN pool' = [pool EXCEPT !.Workers[k] = [@ EXCEPT !.pc = "sending"]]
           ELSE pool' = [pool EXCEPT
                 !.Workers[k] = [@ EXCEPT !.pc = "select", !.job = <<>>],
                 !.Error[job.idx] =
                     IF out.err # NilError THEN Append(@, out.err) ELSE @,
                 !.Result[job.idx] =
                     IF out.err # NilError THEN @ ELSE Append(@, out.result),
                 !.processedBy[job.idx] = Append(@, w.ID)]
    /\ UNCHANGED exceptPool

\* ProcessJobs' select: a result, an error, or the context's end
ProcessJobsSelect ==
    /\ pool.pc = "wait"
    /\ LET idx == pool.i + 1
           next == IF idx = Len(pool.jobs) THEN "returned" ELSE "makeJob"
       IN  \/ /\ pool.Result[idx] # <<>>
              /\ pool' = [pool EXCEPT !.results[idx] = Head(pool.Result[idx]),
                                      !.Result[idx] = Tail(@),
                                      !.i = idx, !.pc = next]
           \/ /\ pool.Error[idx] # <<>>
              /\ pool' = [pool EXCEPT !.errors[idx] = Head(pool.Error[idx]),
                                      !.Error[idx] = Tail(@),
                                      !.i = idx, !.pc = next]
           \/ /\ pool.cancelled
              /\ pool' = [pool EXCEPT !.errors[idx] = CtxErr,
                                      !.i = idx, !.pc = next]
    /\ UNCHANGED exceptPool

\* the context of the batch is cancelled or times out
PoolCancel ==
    /\ pool.pc \in {"makeJob", "submit", "wait"}
    /\ ~pool.cancelled
    /\ pool' = [pool EXCEPT !.cancelled = TRUE]
    /\ UNCHANGED exceptPool

\* WorkerPool.Stop is entered (deferred in the example)
PoolStop ==
    /\ pool.pc \in {"started", "returned"}
    /\ pool' = [pool EXCEPT !.pc = "stopping"]
    /\ UNCHANGED exceptPool

\* Worker.Stop: the send on Quit meets the worker's select, in slice order
WorkerQuit(k) ==
    /\ pool.pc = "stopping"
    /\ k = pool.stopped + 1
    /\ k \in 1 .. pool.NumWorkers
    /\ pool.Workers[k].pc = "select"
    /\ pool' = [pool EXCEPT !.Workers[k] = [@ EXCEPT !.pc = "exited"],
                            !.stopped = k]
    /\ UNCHANGED exceptPool

\* Wg.Wait returns when every worker goroutine is gone
PoolWait ==
    /\ pool.pc = "stopping"
    /\ pool.stopped = pool.NumWorkers
    /\ \A k \in 1 .. pool.NumWorkers : pool.Workers[k].pc = "exited"
    /\ pool' = [pool EXCEPT !.pc = "stopped"]
    /\ UNCHANGED exceptPool

(* ------------------------------ Pipeline ------------------------------- *)
\* the stages of the example: double and stringify are TransformStages,
\* filter is a FilterStage; fanout is a FanOutStage; convert is the
\* goroutine of Pipeline.Process
TransformStages == {"double", "stringify"}
FilterStages == {"filter"}
FanOutStages == {"fanout"}
FilterAbove == 5

\* the Transform functions of the example
Transform(stage, x) ==
    IF stage = "double" THEN x * 2 ELSE [processed |-> x]

\* the Predicate of the example
Predicate(stage, x) == x > FilterAbove

\* the stage lists: doubles, filters and fan-outs, then at most one
\* stringify (what follows a stringify would assert x.(int) on a string)
RECURSIVE IntStages(_)
IntStages(n) ==
    IF n = 0 THEN {<<>>}
    ELSE IntStages(n - 1) \cup
         {Append(s, st) : s \in IntStages(n - 1),
                          st \in {"double", "filter", "fanout"}}
StageLists ==
    {s \o t : s \in IntStages(MaxStages), t \in {<<>>, <<"stringify">>}}

Inputs == UNION {[1 .. n -> 1 .. MaxValue] : n \in 0 .. MaxInput}

\* a goroutine waiting in its outer select
Receiving == [pc |-> "recv", item |-> <<>>]
\* a goroutine waiting in its inner select with the value to send
Sending(v) == [pc |-> "send", item |-> <<v>>]
\* a goroutine that has returned
Returned == [pc |-> "done", item |-> <<>>]

\* what a stage's goroutine does with a received value (mutant: the filter
\* forwards without asking its predicate)
AfterReceiveNoPredicate(stage, data) ==
    IF stage \in TransformStages THEN Sending(Transform(stage, data))
    ELSE Sending(data)
AfterReceive(stage, data) ==
    IF stage \in TransformStages THEN Sending(Transform(stage, data))
    ELSE IF stage \in FilterStages
         THEN IF Predicate(stage, data) THEN Sending(data) ELSE Receiving
         ELSE Sending(data)

NoPipeline ==
    [pc |-> "idle", stages |-> <<>>, NumWorkers |-> 0, input |-> <<>>,
     rest |-> <<>>, closed |-> <<>>, procs |-> <<>>, out |-> <<>>,
     consumer |-> "idle", cancelled |-> FALSE]

\* the goroutines that receive and send for a stage: one for the converter,
\* a TransformStage and a FilterStage, NumWorkers for a FanOutStage
GoroutinesOf(stage, numWorkers) ==
    IF stage \in FanOutStages THEN [w \in 1 .. numWorkers |-> Receiving]
    ELSE <<Receiving>>

\* stage 1 is the converter, stage j + 1 runs the j-th stage added
StageOf(j) == IF j = 1 THEN "convert" ELSE pipeline.stages[j - 1]

\* the goroutines of stage j that wait to send
Senders(j) ==
    {u \in DOMAIN pipeline.procs[j] : pipeline.procs[j][u].pc = "send"}

\* goroutine w of stage j returns: its deferred close(output) runs, or, for
\* a worker of a FanOutStage, its deferred wg.Done (mutant: a returning
\* worker closes the output itself)
AfterReturnWorkerCloses(p, j, w) ==
    [p EXCEPT !.procs[j][w] = Returned, !.closed[j + 1] = TRUE]
AfterReturn(p, j, w) ==
    [p EXCEPT !.procs[j][w] = Returned,
              !.closed[j + 1] = IF StageOf(j) \in FanOutStages THEN @
                                ELSE TRUE]

\* ExamplePipeline: the producer, the pipeline and its stages, the consumer;
\* channel 1 is the input, channel j + 1 the output of stage j
PipelineCall ==
    /\ pipeline.pc = "idle"
    /\ \E in \in Inputs, stages \in StageLists :
       \E n \in IF \E k \in DOMAIN stages : stages[k] \in FanOutStages
                THEN 0 .. MaxFanWorkers ELSE {0} :
          pipeline' = [NoPipeline EXCEPT
              !.pc = "running",
              !.stages = stages,
              !.NumWorkers = n,
              !.input = in,
              !.rest = in,
              !.closed = [c \in 1 .. Len(stages) + 2 |-> FALSE],
              !.procs = [j \in 1 .. Len(stages) + 1 |->
                            GoroutinesOf(IF j = 1 THEN "convert"
                                         ELSE stages[j - 1], n)],
              !.consumer = "recv"]
    /\ UNCHANGED exceptPipeline

\* goroutine w of stage j receives from the stage's input channel: the
\* sender (the producer for channel 1, a goroutine of stage j - 1
\* otherwise) completes its send
PipelineReceive(j, w) ==
    /\ pipeline.pc = "running"
    /\ j \in DOMAIN pipeline.procs
    /\ w \in DOMAIN pipeline.procs[j]
    /\ pipeline.procs[j][w].pc = "recv"
    /\ IF j = 1
       THEN /\ pipeline.rest # <<>>
            /\ pipeline' = [pipeline EXCEPT
                  !.rest = Tail(@),
                  !.procs[1][w] = AfterReceive(StageOf(1), Head(pipeline.rest))]
       ELSE \E u \in Senders(j - 1) :
               pipeline' = [pipeline EXCEPT
                  !.procs[j - 1][u] = Receiving,
                  !.procs[j][w] = AfterReceive(StageOf(j),
                                     pipeline.procs[j - 1][u].item[1])]
    /\ UNCHANGED exceptPipeline

\* the consumer's range receives from the last channel
PipelineConsume ==
    /\ pipeline.pc = "running"
    /\ pipeline.consumer = "recv"
    /\ LET n == Len(pipeline.procs)
       IN  \E u \in Senders(n) :
              pipeline' = [pipeline EXCEPT
                 !.procs[n][u] = Receiving,
                 !.out = Append(@, pipeline.procs[n][u].item[1])]
    /\ UNCHANGED exceptPipeline

\* the producer has sent everything: deferred close(input)
PipelineCloseInput ==
    /\ pipeline.pc = "running"
    /\ pipeline.rest = <<>>
    /\ ~pipeline.closed[1]
    /\ pipeline' = [pipeline EXCEPT !.closed[1] = TRUE]
    /\ UNCHANGED exceptPipeline

\* goroutine w of stage j finds its input closed and returns
PipelineInputClosed(j, w) ==
    /\ pipeline.pc = "running"
    /\ j \in DOMAIN pipeline.procs
    /\ w \in DOMAIN pipeline.procs[j]
    /\ pipeline.procs[j][w].pc = "recv"
    /\ pipeline.closed[j]
    /\ pipeline' = AfterReturn(pipeline, j, w)
    /\ UNCHANGED exceptPipeline

\* goroutine w of stage j takes the ctx.Done case of the select it waits in
PipelineCtxDone(j, w) ==
    /\ pipeline.pc = "running"
    /\ j \in DOMAIN pipeline.procs
    /\ w \in DOMAIN pipeline.procs[j]
    /\ pipeline.procs[j][w].pc \in {"recv", "send"}
    /\ pipeline.cancelled
    /\ pipeline' = AfterReturn(pipeline, j, w)
    /\ UNCHANGED exceptPipeline

\* the outer goroutine of a FanOutStage: wg.Wait returns when every worker
\* has returned (at once when there is none), then the deferred
\* close(output) runs
FanOutWait(j) ==
    /\ pipeline.pc = "running"
    /\ j \in DOMAIN pipeline.procs
    /\ StageOf(j) \in FanOutStages
    /\ ~pipeline.closed[j + 1]
    /\ \A w \in DOMAIN pipeline.procs[j] : pipeline.procs[j][w].pc = "done"
    /\ pipeline' = [pipeline EXCEPT !.closed[j + 1] = TRUE]
    /\ UNCHANGED exceptPipeline

\* the consumer's range ends on the closed output
PipelineOutputClosed ==
    /\ pipeline.pc = "running"
    /\ pipeline.consumer = "recv"
    /\ pipeline.closed[Len(pipeline.procs) + 1]
    /\ pipeline' = [pipeline EXCEPT !.consumer = "done"]
    /\ UNCHANGED exceptPipeline

\* the context is cancelled or times out
PipelineCancel ==
    /\ pipeline.pc = "running"
    /\ ~pipeline.cancelled
    /\ pipeline' = [pipeline EXCEPT !.cancelled = TRUE]
    /\ UNCHANGED exceptPipeline

(* ------------------------------ EventBus ------------------------------- *)
\* the Observer values of a run; two of them may answer the same GetID
Observers == 1 .. MaxObservers
GetID(observer) == (observer + 1) \div 2
ObserverIDs == {GetID(o) : o \in Observers}

\* no NotifyObservers call in progress
NoNotify ==
    [pc |-> "idle", atCall |-> {}, touched |-> {}, observers |-> {},
     spawned |-> {}, notifying |-> {}, completed |-> {},
     delivered |-> [o \in Observers |-> 0]]

\* no Subscribe or Unsubscribe call in progress
NoMutation == [pc |-> "idle", op |-> "none", arg |-> 0]

\* the bus of NewEventBus: the observers map (its values; the key of a
\* value is its GetID), the RWMutex, and the two callers of the run
NewEventBus ==
    [observers |-> {}, readers |-> 0, writer |-> FALSE,
     notify |-> NoNotify, mutation |-> NoMutation, events |-> 0]

\* eb.observers[observer.GetID()] = observer
MapStore(observers, observer) ==
    {o \in observers : GetID(o) # GetID(observer)} \cup {observer}

\* delete(eb.observers, observerID)
MapDelete(observers, observerID) ==
    {o \in observers : GetID(o) # observerID}

\* wg.Wait returns when every goroutine has called Done (mutant: at once)
WgWaitNoWait(n) == TRUE
WgWait(n) == n.spawned = {} /\ n.notifying = {}

\* Subscribe or Unsubscribe is called and takes the write lock
MutationLock ==
    /\ bus.mutation.pc = "idle"
    /\ bus.readers = 0
    /\ ~bus.writer
    /\ \E op \in {"Subscribe", "Unsubscribe"} :
       \E arg \in IF op = "Subscribe" THEN Observers ELSE ObserverIDs :
          bus' = [bus EXCEPT !.writer = TRUE,
                             !.mutation = [pc |-> "locked", op |-> op,
                                           arg |-> arg]]
    /\ UNCHANGED exceptBus

\* the map is written and the deferred Unlock runs
MutationWrite ==
    /\ bus.mutation.pc = "locked"
    /\ LET m == bus.mutation
           id == IF m.op = "Subscribe" THEN GetID(m.arg) ELSE m.arg
           during == bus.notify.pc \notin {"idle", "returned"}
       IN  bus' = [bus EXCEPT
              !.observers = IF m.op = "Subscribe" THEN MapStore(@, m.arg)
                            ELSE MapDelete(@, m.arg),
              !.writer = FALSE,
              !.mutation = NoMutation,
              !.notify.touched = IF during THEN @ \cup {id} ELSE @]
    /\ UNCHANGED exceptBus

\* NotifyObservers is called
NotifyCall ==
    /\ bus.notify.pc \in {"idle", "returned"}
    /\ bus.events < MaxEvents
    /\ bus' = [bus EXCEPT
          !.events = @ + 1,
          !.notify = [NoNotify EXCEPT !.pc = "rlock",
                                      !.atCall = bus.observers]]
    /\ UNCHANGED exceptBus

NotifyRLock ==
    /\ bus.notify.pc = "rlock"
    /\ ~bus.writer
    /\ bus' = [bus EXCEPT !.readers = @ + 1, !.notify.pc = "copy"]
    /\ UNCHANGED exceptBus

\* the map's values are copied into the local slice, then RUnlock
NotifyCopy ==
    /\ bus.notify.pc = "copy"
    /\ bus' = [bus EXCEPT !.readers = @ - 1,
                          !.notify.pc = "spawn",
                          !.notify.observers = bus.observers]
    /\ UNCHANGED exceptBus

\* one goroutine per observer of the slice
NotifySpawn ==
    /\ bus.notify.pc = "spawn"
    /\ bus' = [bus EXCEPT !.notify.pc = "wait",
                          !.notify.spawned = bus.notify.observers]
    /\ UNCHANGED exceptBus

\* a goroutine calls obs.Notify
ObserverNotify(obs) ==
    /\ obs \in bus.notify.spawned
    /\ bus' = [bus EXCEPT !.notify.spawned = @ \ {obs},
                          !.notify.notifying = @ \cup {obs},
                          !.notify.delivered[obs] = @ + 1]
    /\ UNCHANGED exceptBus

\* obs.Notify returns and the deferred wg.Done runs
ObserverDone(obs) ==
    /\ obs \in bus.notify.notifying
    /\ bus' = [bus EXCEPT !.notify.notifying = @ \ {obs},
                          !.notify.completed = @ \cup {obs}]
    /\ UNCHANGED exceptBus

\* wg.Wait is over: NotifyObservers returns nil
NotifyReturn ==
    /\ bus.notify.pc = "wait"
    /\ WgWait(bus.notify)
    /\ bus' = [bus EXCEPT !.notify.pc = "returned"]
    /\ UNCHANGED exceptBus

\* the library's examples before any call
LibInit ==
    /\ stack = NewStack
    /\ stackLog = <<>>
    /\ queue = NewQueue
    /\ queueLog = <<>>
    /\ search = NoSearch
    /\ sort = NoSort
    /\ singleton = NoSingleton
    /\ retry = NoRetry
    /\ pool = NoPool
    /\ pipeline = NoPipeline
    /\ bus = NewEventBus
    /\ classify = NoClassify

(* ---------------------------- specification ---------------------------- *)
Init ==
    /\ now = 0
    /\ nextUid = 1
    /\ webservers = [o \in Idents |-> NoWebserver]
    /\ objects = [key \in Keys |-> NewObject(key.kind)]
    /\ pass = [o \in Idents |-> IdlePass]
    /\ quiet = [o \in Idents |-> FALSE]
    /\ lastSynth = [key \in Keys |-> NoSynth(key)]
    /\ LibInit

Next ==
    \/ \E o \in Idents : ReconcileFetch(o)
    \/ \E o \in Idents : ReconcileDeployment(o)
    \/ \E o \in Idents : ReconcileConfigMap(o)
    \/ \E o \in Idents : ReconcileService(o)
    \/ \E o \in Idents : ReconcileUpdateStatus(o)
    \/ \E o \in Idents : ReconcileStatusWrite(o)
    \/ \E o \in Idents : CreateWebserver(o)
    \/ \E o \in Idents : UpdateWebserverSpec(o)
    \/ \E o \in Idents : DeleteWebserver(o)
    \/ \E key \in Keys : GarbageCollect(key)
    \/ \E key \in Keys : DeploymentReadiness(key)
    \/ \E key \in Keys : SetDeploymentStrategy(key)
    \/ Tick

Spec == Init /\ [][Next]_vars

\* the fetch and its defaulting alone, over every raw spec
DefaultsInit ==
    /\ now = 0
    /\ nextUid = 2
    /\ \E raw \in AllRawSpecs :
          webservers = [o \in Idents |->
                          [name |-> o.name, namespace |-> o.namespace, uid |-> 1,
                           generation |-> 1, spec |-> raw, status |-> ZeroStatus]]
    /\ objects = [key \in Keys |-> NewObject(key.kind)]
    /\ pass = [o \in Idents |-> IdlePass]
    /\ quiet = [o \in Idents |-> FALSE]
    /\ lastSynth = [key \in Keys |-> NoSynth(key)]
    /\ LibInit

DefaultsNext == \E o \in Idents : ReconcileFetch(o)

SpecDefaults == DefaultsInit /\ [][DefaultsNext]_vars

\* a condition some other writer of the status subresource left behind
PriorCondition(type) ==
    [type |-> type, status |-> "True", reason |-> "SetByOther",
     message |-> [format |-> "set by another writer", args |-> <<>>],
     lastTransitionTime |-> 0]

\* the condition lists the stored status may hold before a pass
PriorConditions ==
    {<<>>,
     <<PriorCondition("Progressing")>>,
     <<PriorCondition("Ready"), PriorCondition("Degraded")>>,
     <<PriorCondition("Available"), PriorCondition("Progressing"),
       PriorCondition("Ready")>>}

\* the reading of the wall clock goes on for ever; the model keeps it within
\* MaxTime + 1 ticks, so that two readings a whole turn apart read alike
TickAround ==
    /\ now' = (now + 1) % (MaxTime + 1)
    /\ UNCHANGED <<nextUid, webservers, objects, pass, quiet, lastSynth, libVars>>

\* a step of Reconcile against a store that answers every call
SteadyPass ==
    \E o \in Idents :
        /\ \/ ReconcileFetch(o)
           \/ ReconcileDeployment(o)
           \/ ReconcileConfigMap(o)
           \/ ReconcileService(o)
           \/ ReconcileUpdateStatus(o)
           \/ ReconcileStatusWrite(o)
        /\ pass'[o].result.err = "nil"

\* an owner that exists, with whatever conditions in its status, and no
\* dependents yet
SteadyInit ==
    /\ now = 0
    /\ nextUid = 2
    /\ \E raw \in RawSpecs : \E prior \in PriorConditions :
          webservers = [o \in Idents |->
                          [name |-> o.name, namespace |-> o.namespace, uid |-> 1,
                           generation |-> 1, spec |-> raw,
                           status |-> [ZeroStatus EXCEPT !.conditions = prior]]]
    /\ objects = [key \in Keys |-> NewObject(key.kind)]
    /\ pass = [o \in Idents |-> IdlePass]
    /\ quiet = [o \in Idents |-> FALSE]
    /\ lastSynth = [key \in Keys |-> NoSynth(key)]
    /\ LibInit

SteadyNext == SteadyPass \/ TickAround

\* the owner and its dependents are changed by nobody but the reconciler, which
\* runs pass after pass (the requeue of SuccessResult) while time goes by
SpecSteady ==
    SteadyInit /\ [][SteadyNext]_vars /\ WF_vars(SteadyPass) /\ WF_vars(TickAround)

\* the identities of which two at a time are reconciled side by side
PairIdents ==
    Idents \cup {[namespace |-> "prod", name |-> "web"],
                 [namespace |-> "default", name |-> "shop"]}

\* the dependents' keys of a set of identities
KeysOf(ids) == {DepKey(k, o.namespace, o.name) : k \in Kinds, o \in ids}

\* the uid the store gave each of them
UidOf(o) ==
    CASE o.namespace = "default" /\ o.name = "web" -> 1
      [] o.namespace = "prod"                        -> 2
      [] OTHER                                       -> 3

\* two Webservers exist, neither reconciled yet
PairInit ==
    /\ now = 0
    /\ nextUid = 4
    /\ \E a \in PairIdents : \E b \in PairIdents \ {a} :
        \E specs \in [{a, b} -> RawSpecs] :
          /\ webservers = [o \in {a, b} |->
                             [name |-> o.name, namespace |-> o.namespace,
                              uid |-> UidOf(o), generation |-> 1,
                              spec |-> specs[o], status |-> ZeroStatus]]
          /\ objects = [key \in KeysOf({a, b}) |-> NewObject(key.kind)]
          /\ pass = [o \in {a, b} |-> IdlePass]
          /\ quiet = [o \in {a, b} |-> FALSE]
          /\ lastSynth = [key \in KeysOf({a, b}) |-> NoSynth(key)]
    /\ LibInit

\* one Reconcile invocation per request, the two in any interleaving
PairNext ==
    \/ \E o \in DOMAIN pass : pass[o].pc = "idle" /\ ReconcileFetch(o)
    \/ \E o \in DOMAIN pass : ReconcileDeployment(o)
    \/ \E o \in DOMAIN pass : ReconcileConfigMap(o)
    \/ \E o \in DOMAIN pass : ReconcileService(o)
    \/ \E o \in DOMAIN pass : ReconcileUpdateStatus(o)
    \/ \E o \in DOMAIN pass : ReconcileStatusWrite(o)

SpecPair == PairInit /\ [][PairNext]_vars

\* a whole pass for o against a store that answers every call, as one step:
\* the store it leaves
WholePass(store, o, t) ==
    LET stored == store.webservers[o]
        ws == InitStatus([stored EXCEPT !.spec = SetDefaults(@)])
        key(kind) == DepKey(kind, ws.namespace, ws.name)
        after(kind) == CreateOrUpdate(kind, store.objects[key(kind)], ws, t, "none").obj
        objs == [k \in DOMAIN store.objects |->
                    IF \E kind \in Kinds : k = key(kind)
                    THEN after(k.kind) ELSE store.objects[k]]
        ws2 == updateStatus(ws, objs[key("Deployment")], t)
    IN  [webservers |-> [store.webservers EXCEPT ![o] =
                            StatusUpdate(stored, [ws2 EXCEPT !.status.phase = FinalPhase(ws2)])],
         objects |-> objs]

\* the calls on one new Stack
StackNext == DoPush \/ DoPop \/ DoPeek \/ DoStackSize \/ DoStackIsEmpty

SpecStack == Init /\ [][StackNext]_vars

\* the calls on one new Queue
QueueNext == DoEnqueue \/ DoDequeue \/ DoFront \/ DoQueueSize \/ DoQueueIsEmpty

SpecQueue == Init /\ [][QueueNext]_vars

\* goroutines calling GetInstance, and SetData and GetData on what it returned
SingletonNext ==
    \/ \E i \in Goroutines : GetInstanceCall(i)
    \/ \E i \in Goroutines : OnceDo(i)
    \/ \E i \in Goroutines : OnceLock(i)
    \/ \E i \in Goroutines : OnceDoSlow(i)
    \/ \E i \in Goroutines : Construct(i)
    \/ \E i \in Goroutines : OnceStore(i)
    \/ \E i \in Goroutines : OnceUnlock(i)
    \/ \E i \in Goroutines : GetInstanceReturn(i)
    \/ \E i \in Goroutines : SetData(i)
    \/ \E i \in Goroutines : GetData(i)

SpecSingleton == Init /\ [][SingletonNext]_vars

\* one call of Retry
RetryNext == RetryCall \/ RetryLoop \/ RetryFn \/ RetrySleep \/ RetryCancel

SpecRetry == Init /\ [][RetryNext]_vars

\* errors are built and classified
ClassifyNext ==
    \/ ErrorsNewCall \/ NewRetryableErrorCall \/ NewNonRetryableErrorCall
    \/ IsRetryableCall

SpecClassify == Init /\ [][ClassifyNext]_vars

\* an event bus with one caller of NotifyObservers and one caller of
\* Subscribe and Unsubscribe, running concurrently
BusNext ==
    \/ MutationLock \/ MutationWrite
    \/ NotifyCall \/ NotifyRLock \/ NotifyCopy \/ NotifySpawn \/ NotifyReturn
    \/ \E obs \in Observers : ObserverNotify(obs) \/ ObserverDone(obs)

SpecBus == Init /\ [][BusNext]_vars

\* one run of a pipeline: producer, converter, stages and consumer
PipelineNext ==
    \/ PipelineCall \/ PipelineConsume \/ PipelineCloseInput
    \/ PipelineOutputClosed \/ PipelineCancel
    \/ \E j \in 1 .. MaxStages + 2 : FanOutWait(j)
    \/ \E j \in 1 .. MaxStages + 2, w \in 1 .. MaxFanWorkers + 1 :
          \/ PipelineReceive(j, w)
          \/ PipelineInputClosed(j, w)
          \/ PipelineCtxDone(j, w)

SpecPipeline == Init /\ [][PipelineNext]_vars

\* the same run with the scheduler's guarantee and a consumer that keeps
\* receiving: a goroutine that can keep taking its next step takes it
SpecPipelineLive ==
    /\ Init
    /\ [][PipelineNext]_vars
    /\ WF_vars(PipelineConsume) /\ WF_vars(PipelineOutputClosed)
    /\ WF_vars(PipelineCloseInput)
    /\ \A j \in 1 .. MaxStages + 2 :
          /\ WF_vars(FanOutWait(j))
          /\ \A w \in 1 .. MaxFanWorkers + 1 :
                /\ WF_vars(PipelineReceive(j, w))
                /\ WF_vars(PipelineInputClosed(j, w))
                /\ WF_vars(PipelineCtxDone(j, w))

\* a worker pool through the example's life: made, started, one batch, stopped
PoolNext ==
    \/ NewWorkerPoolCall \/ PoolStart \/ ProcessJobsCall
    \/ ProcessJobsMakeJob \/ SubmitJob \/ ProcessJobsSelect
    \/ PoolCancel \/ PoolStop \/ PoolWait
    \/ DirectSubmitCall
    \/ \E d \in 1 .. MaxDirect : DirectSubmit(d)
    \/ \E k \in 1 .. MaxWorkers :
          WorkerReceive(k) \/ WorkerProcess(k) \/ WorkerQuit(k)

SpecPool == Init /\ [][PoolNext]_vars

\* the same pool with the scheduler's guarantee: a goroutine that can keep
\* taking its next step (a worker's receive, processing or quit, Stop's
\* wait, ProcessJobs' steps, a pending send on the queue) takes it
SpecPoolLive ==
    /\ Init
    /\ [][PoolNext]_vars
    /\ \A k \in 1 .. MaxWorkers :
          /\ WF_vars(WorkerReceive(k))
          /\ WF_vars(WorkerProcess(k))
          /\ WF_vars(WorkerQuit(k))
    /\ \A d \in 1 .. MaxDirect : WF_vars(DirectSubmit(d))
    /\ WF_vars(PoolWait)
    /\ WF_vars(ProcessJobsMakeJob) /\ WF_vars(SubmitJob)
    /\ WF_vars(ProcessJobsSelect)

\* one call of QuickSort
SortNext == SortCall \/ QuickSort \/ SortReturn

SpecSort == Init /\ [][SortNext]_vars

\* one call of each binary search on one input
SearchNext == SearchCall \/ BinarySearchLoop \/ BinarySearchRecursiveCall

SpecSearch == Init /\ [][SearchNext]_vars

(* ------------------------------- claims -------------------------------- *)
Succeeded(o) == pass[o].pc = "done" /\ pass[o].result = SuccessResult

\* a successful pass has returned and no other actor has written since
JustSucceeded(o) == Succeeded(o) /\ quiet[o]

\* the pass began right after a successful pass with no external change in
\* between, and ran to success with none either
SecondPass(o) == Succeeded(o) /\ pass[o].undisturbed

Failed(o, k) == pass[o].outcome[k].attempted /\ pass[o].outcome[k].err # "nil"
Converged(o, k) ==
    /\ pass[o].outcome[k].attempted
    /\ pass[o].outcome[k].err = "nil"
    /\ pass[o].outcome[k].op \in {"created", "updated", "unchanged"}

PcOf(kind) ==
    CASE kind = "Deployment" -> "deployment"
      [] kind = "ConfigMap"  -> "configmap"
      [] kind = "Service"    -> "service"

\* C1 (as claimed): a pass that follows a successful pass with no external
\* change in between leaves all three dependents Unchanged.
C1_SecondPassUnchanged ==
    \A o \in Idents :
        SecondPass(o) => \A k \in Kinds : pass[o].outcome[k].op = "unchanged"

Order == <<"Deployment", "ConfigMap", "Service">>

Unowned(kind, obj) ==
    CASE kind = "Deployment" -> obj.spec.strategy
      [] kind = "Service"    -> obj.spec.clusterIP
      [] kind = "ConfigMap"  -> ""

\* C3 (as claimed): an update of an existing dependent leaves every stored
\* field outside the owned set (the Service's clusterIP, a Deployment spec
\* field set by another actor) as it was.
C3_UnownedFieldsKept ==
    [][\A o \in Idents : \A k \in Kinds :
          (pass[o].pc = PcOf(k) /\ pass'[o].outcome[k].op = "updated")
              => LET key == DepKey(k, o.namespace, o.name)
                 IN  Unowned(k, objects'[key]) = Unowned(k, objects[key])]_vars

\* C4: when the Webserver is absent at the fetch and the Get itself does not
\* fail, Reconcile returns at once with no error and no requeue, and nothing
\* in the store is written.
C4_NotFoundShortCircuit ==
    [][\A o \in Idents :
          (/\ pass[o].pc \in {"idle", "done"}
           /\ pass'[o] # pass[o]
           /\ webservers[o].uid = 0
           /\ pass'[o].result.err # "StoreUnavailable")
              => /\ pass'[o].pc = "done"
                 /\ pass'[o].result = [RequeueAfter |-> 0, err |-> "nil"]
                 /\ pass'[o].writes = 0
                 /\ ~pass'[o].statusWritten
                 /\ \A k \in Kinds : ~pass'[o].outcome[k].attempted
                 /\ webservers' = webservers
                 /\ objects' = objects]_vars

\* a request for a deleted owner whose dependents are still in the store
C4_Witness ==
    \E o \in Idents :
        /\ pass[o].pc = "done"
        /\ ~pass[o].found
        /\ pass[o].result.err = "nil"
        /\ webservers[o].uid = 0
        /\ \E key \in Keys : objects[key].exists

\* the desired replicas of the stored Webserver after defaulting
DesiredReplicas(o) ==
    IF webservers[o].spec.replicas = 0 THEN 1 ELSE webservers[o].spec.replicas

\* C5: after a successful pass the stored status.readyReplicas is the ready
\* count read from the Deployment, and the single Ready condition is True with
\* reason ReconciliationSucceeded exactly when that count equals the defaulted
\* replicas, else False with reason ReplicasNotReady and a message giving the
\* expected and the actual count.
C5_ReadyCondition ==
    \A o \in Idents :
        JustSucceeded(o) =>
            LET st   == webservers[o].status
                got  == pass[o].observedReady
                want == DesiredReplicas(o)
            IN  /\ st.readyReplicas = got
                /\ Len(st.conditions) = 1
                /\ st.conditions[1].type = "Ready"
                /\ (got = want) =>
                      /\ st.conditions[1].status = "True"
                      /\ st.conditions[1].reason = "ReconciliationSucceeded"
                /\ (got # want) =>
                      /\ st.conditions[1].status = "False"
                      /\ st.conditions[1].reason = "ReplicasNotReady"
                      /\ st.conditions[1].message =
                            [format |-> "Expected %d replicas, got %d",
                             args |-> <<want, got>>]

\* some but not all replicas ready
C5_Witness ==
    \E o \in Idents :
        /\ JustSucceeded(o)
        /\ pass[o].observedReady = 1
        /\ DesiredReplicas(o) = 2
        /\ webservers[o].status.conditions[1].status = "False"

\* C6 (as claimed): after a successful pass the stored phase is "Ready" when
\* the observed ready replicas equal the desired replicas and is not "Ready"
\* when they differ.
C6_PhaseFollowsReadiness ==
    \A o \in Idents :
        JustSucceeded(o) =>
            (webservers[o].status.phase = "Ready"
                <=> pass[o].observedReady = DesiredReplicas(o))

\* C7: the fetch replaces each zero/empty field of the spec by its default and
\* keeps every other field; defaulting the result again changes nothing.
C7_Defaulting ==
    [][\A o \in Idents :
          (pass[o].pc \in {"idle", "done"} /\ pass'[o].pc = "deployment")
              => LET raw == webservers[o].spec
                     eff == pass'[o].ws.spec
                 IN  /\ eff.replicas = (IF raw.replicas = 0 THEN 1 ELSE raw.replicas)
                     /\ eff.image = (IF raw.image = "" THEN "nginx:1.25" ELSE raw.image)
                     /\ eff.port = (IF raw.port = 0 THEN 80 ELSE raw.port)
                     /\ eff.serviceType =
                            (IF raw.serviceType = "" THEN "ClusterIP" ELSE raw.serviceType)
                     /\ eff.config.title =
                            (IF raw.config.title = "" THEN "Webserver Operator Demo"
                             ELSE raw.config.title)
                     /\ eff.config.message =
                            (IF raw.config.message = ""
                             THEN "Welcome to the Webserver Operator Demo!"
                             ELSE raw.config.message)
                     /\ eff.config.color =
                            (IF raw.config.color = "" THEN "#f0f0f0" ELSE raw.config.color)
                     /\ SetDefaults(eff) = eff]_vars

\* a fetched spec with some fields defaulted and some kept
C7_Witness ==
    \E o \in Idents :
        /\ pass[o].pc = "deployment"
        /\ webservers[o].spec.image = ""
        /\ pass[o].ws.spec.image = "nginx:1.25"
        /\ webservers[o].spec.replicas = 0
        /\ pass[o].ws.spec.replicas = 1
        /\ pass[o].ws.spec.port = 8080
        /\ pass[o].ws.spec.config.message = "Hello"

\* C8: two consecutive syntheses of a dependent from owners with the same field
\* values give the same owned fields (the generated timestamp left out),
\* whatever the clock and the stored object were.
C8_SynthesisDeterministic ==
    [][\A key \in Keys :
          lastSynth'[key].owner = lastSynth[key].owner
              => lastSynth'[key].owned = lastSynth[key].owned]_vars

\* a second pass on an unchanged owner, at a later second, over a Deployment
\* another actor had edited
C8_Witness ==
    \E o \in Idents :
        /\ Succeeded(o)
        /\ pass[o].outcome["Deployment"].op = "updated"
        /\ pass[o].outcome["ConfigMap"].op = "updated"
        /\ webservers[o].generation = 1
        /\ webservers[o].status.observedGeneration = 1
        /\ FormatTime(now) > 0

\* C9: after a successful pass for owner (ns, n) the store holds n-deployment,
\* n-service and n-config in ns, each with the three labels and a controller
\* owner reference to that owner.
C9_DependentsCreated ==
    \A o \in Idents :
        JustSucceeded(o) =>
            \A name \in {o.name \o "-deployment", o.name \o "-service", o.name \o "-config"} :
                \E key \in Keys :
                    /\ key.name = name
                    /\ key.namespace = o.namespace
                    /\ key.kind = (CASE name = o.name \o "-deployment" -> "Deployment"
                                     [] name = o.name \o "-service" -> "Service"
                                     [] name = o.name \o "-config" -> "ConfigMap")
                    /\ objects[key].exists
                    /\ DOMAIN objects[key].labels = {"app", "instance", "managed-by"}
                    /\ objects[key].labels["app"] = "webserver"
                    /\ objects[key].labels["instance"] = o.name
                    /\ objects[key].labels["managed-by"] = "webserver-operator"
                    /\ \E i \in DOMAIN objects[key].ownerReferences :
                          objects[key].ownerReferences[i] =
                              [kind |-> "Webserver", name |-> o.name,
                               uid |-> webservers[o].uid, controller |-> TRUE]

\* the first successful pass of an owner: all three dependents created
C9_Witness ==
    \E o \in Idents :
        /\ JustSucceeded(o)
        /\ \A k \in Kinds : pass[o].outcome[k].op = "created"

\* C10: Reconcile returns requeueAfter = 5 minutes and no error exactly when
\* the owner was found and the three dependents and the status write all
\* succeeded; whenever it returns an error it returns no requeueAfter.
C10_RequeueContract ==
    \A o \in Idents :
        pass[o].pc = "done" =>
            /\ (pass[o].result.RequeueAfter = 300 /\ pass[o].result.err = "nil")
                  <=> (/\ pass[o].found
                       /\ \A k \in Kinds : Converged(o, k)
                       /\ pass[o].statusWritten)
            /\ pass[o].result.err # "nil" => pass[o].result.RequeueAfter = 0
            /\ pass[o].result.RequeueAfter \in {0, 300}

\* a pass that failed at the status write, after three converged dependents
C10_Witness ==
    \E o \in Idents :
        /\ pass[o].pc = "done"
        /\ \A k \in Kinds : Converged(o, k)
        /\ pass[o].result.err = "Conflict"

\* C11 (as claimed): when the stored ConfigMap differs from the newly
\* synthesized one only in the generated timestamp text, the ConfigMap step of
\* the pass issues no update and leaves the stored ConfigMap as it is.
C11_TimestampExempt ==
    [][\A o \in Idents :
          LET p   == pass[o]
              key == DepKey("ConfigMap", p.ws.namespace, p.ws.name)
              cur == objects[key]
              new == mutateConfigMap(cur, p.ws, now)
          IN  (/\ p.pc = "configmap"
               /\ pass'[o].outcome["ConfigMap"].attempted
               /\ pass'[o].outcome["ConfigMap"].err = "nil"
               /\ cur.exists
               /\ new # cur
               /\ OwnedFields("ConfigMap", key, new) = OwnedFields("ConfigMap", key, cur))
                  => /\ pass'[o].outcome["ConfigMap"].op = "unchanged"
                     /\ objects'[key] = cur]_vars

\* a successful pass that changed no stored object: no dependent was created
\* or updated and the status written equals the status stored
QuietPass(o) ==
    /\ Succeeded(o)
    /\ \A k \in Kinds : pass[o].outcome[k].op = "unchanged"
    /\ ~pass[o].statusChanged

\* C12 (as claimed): with no external change to the owner or its dependents,
\* repeated passes eventually reach a pass that changes no stored object.
C12_Quiescence == <>(\E o \in Idents : QuietPass(o))

\* C13: after every successful pass the owner's stored condition list holds
\* exactly one entry, of type Ready, whatever conditions the status held
\* before the pass.
C13_ConditionReplaced ==
    \A o \in Idents :
        Succeeded(o) =>
            /\ Len(webservers[o].status.conditions) = 1
            /\ webservers[o].status.conditions[1].type = "Ready"

\* a successful pass over a status that held three conditions
C13_Witness ==
    \E o \in Idents :
        /\ Succeeded(o)
        /\ pass[o].priorConditions = 3
        /\ Len(webservers[o].status.conditions) = 1

\* C14: a step of Reconcile leaves the stored owner's spec and metadata as
\* they are (the defaults stay in the pass's own copy), and the only step that
\* writes the stored owner at all is the status-subresource update.
C14_OwnerWrittenOnlyThroughStatus ==
    [][\A o \in Idents :
          pass'[o] # pass[o] =>
              /\ webservers'[o] = [webservers[o] EXCEPT !.status = webservers'[o].status]
              /\ webservers'[o] # webservers[o] => pass[o].pc = "statusUpdate"]_vars

\* a successful pass that worked with defaulted values and wrote the status,
\* the stored spec still as the user submitted it
C14_Witness ==
    \E o \in Idents :
        /\ Succeeded(o)
        /\ pass[o].statusChanged
        /\ webservers[o].spec = ZeroSpec
        /\ objects[DepKey("Deployment", o.namespace, o.name)].spec.replicas = DefaultReplicas
        /\ webservers[o].status.phase = "Ready"

\* the stored status of o tells of a failure: it is not in phase Ready and
\* holds no Ready condition that is True
ShowsFailure(status) ==
    /\ status.phase # "Ready"
    /\ \A i \in DOMAIN status.conditions :
          status.conditions[i].type = "Ready" => status.conditions[i].status # "True"

\* C15 (as claimed): when a pass ends with an error at one of its dependents
\* or at the status reduction, the owner's stored status shows the failure.
C15_FailureSurfaced ==
    [][\A o \in Idents :
          (/\ pass[o].pc \in {"deployment", "configmap", "service", "updateStatus"}
           /\ pass'[o].pc = "done"
           /\ pass'[o].result.err # "nil"
           /\ webservers'[o].uid # 0)
              => ShowsFailure(webservers'[o].status)]_vars

\* the pass of o is between its fetch and its return
InFlight(o) == pass[o].pc \notin {"idle", "done"}

\* C16: a step of a pass never touches a dependent the pass has already
\* created or updated (no delete, no revert), whether the step succeeds or
\* fails, and a pass that ends before its status write returns an error.
C16_NoRollback ==
    [][\A o \in Idents :
          (InFlight(o) /\ pass'[o] # pass[o]) =>
              /\ \A k \in Kinds :
                    pass[o].outcome[k].attempted =>
                        objects'[DepKey(k, o.namespace, o.name)]
                            = objects[DepKey(k, o.namespace, o.name)]
              /\ (pass'[o].pc = "done" /\ ~pass'[o].statusWritten) =>
                    /\ pass'[o].result.err # "nil"
                    /\ pass'[o].result.RequeueAfter = 0]_vars

\* a pass that created the Deployment, failed at the ConfigMap and returned:
\* the Deployment is stored as that pass synthesized it
C16_Witness ==
    \E o \in Idents :
        LET key == DepKey("Deployment", o.namespace, o.name) IN
        /\ pass[o].pc = "done"
        /\ pass[o].outcome["Deployment"].op = "created"
        /\ Failed(o, "ConfigMap")
        /\ pass[o].result.err # "nil"
        /\ objects[key].exists
        /\ OwnedFields("Deployment", key, objects[key]) = lastSynth[key].owned

\* the store before either pass ran: the owners unreconciled, no dependents
StoreBefore ==
    [webservers |-> [o \in DOMAIN webservers |-> [webservers[o] EXCEPT !.status = ZeroStatus]],
     objects |-> [key \in DOMAIN objects |-> NewObject(key.kind)]]

\* C17: the passes for two different identities work on disjoint dependent
\* keys, a step of one pass changes no stored object and no pass state of the
\* other identity, and when both passes have succeeded the store is the one
\* that running the two passes one after the other, in either order, leaves.
C17_Independent ==
    /\ [](\A a \in DOMAIN pass : \A b \in DOMAIN pass \ {a} :
            /\ KeysOf({a}) \cap KeysOf({b}) = {}
            /\ (Succeeded(a) /\ Succeeded(b)) =>
                  [webservers |-> webservers, objects |-> objects]
                      = WholePass(WholePass(StoreBefore, a, now), b, now))
    /\ [][\A a \in DOMAIN pass :
            pass'[a] # pass[a] =>
                /\ \A b \in DOMAIN pass \ {a} :
                      /\ pass'[b] = pass[b]
                      /\ webservers'[b] = webservers[b]
                /\ \A key \in DOMAIN objects \ KeysOf({a}) :
                      objects'[key] = objects[key]]_vars

\* both passes have succeeded and each identity has its own three dependents
C17_Witness ==
    \E a \in DOMAIN pass : \E b \in DOMAIN pass \ {a} :
        /\ Succeeded(a) /\ Succeeded(b)
        /\ a.name = b.name
        /\ \A key \in DOMAIN objects : objects[key].exists
        /\ webservers[a].spec # webservers[b].spec

\* the reference stack after the calls of h: the items pushed and not yet
\* popped, the most recent first
RECURSIVE RefStack(_)
RefStack(h) ==
    IF h = <<>> THEN <<>>
    ELSE LET before == RefStack(SubSeq(h, 1, Len(h) - 1))
             c == h[Len(h)]
         IN  CASE c.op = "Push" -> <<c.arg>> \o before
               [] c.op = "Pop"  -> IF before = <<>> THEN <<>> ELSE Tail(before)
               [] OTHER         -> before

\* the calls of h that were pushes, and the pops among them that found an item
Pushes(h) == Cardinality({i \in 1 .. Len(h) : h[i].op = "Push"})
SuccessfulPops(h) ==
    Cardinality({i \in 1 .. Len(h) :
        h[i].op = "Pop" /\ RefStack(SubSeq(h, 1, i - 1)) # <<>>})

\* C18: every call on a new Stack returns what the reference model returns:
\* Pop and Peek the most recently pushed item not yet popped (nil on an empty
\* stack), Size the pushes minus the successful pops, IsEmpty whether that is
\* zero; and the stack holds the reference model's items, so that Pop removes
\* its item, Peek removes none and an empty stack stays empty.
C18_StackLIFO ==
    /\ \A i \in 1 .. Len(stackLog) :
        LET h      == SubSeq(stackLog, 1, i - 1)
            before == RefStack(h)
            c      == stackLog[i]
        IN  CASE c.op \in {"Pop", "Peek"} ->
                    c.ret = IF before = <<>> THEN Nil ELSE Head(before)
              [] c.op = "Size" ->
                    /\ c.ret = Pushes(h) - SuccessfulPops(h)
                    /\ c.ret = Len(before)
              [] c.op = "IsEmpty" -> c.ret = (before = <<>>)
              [] OTHER -> TRUE
    /\ LET ref == RefStack(stackLog) IN
        /\ Len(stack.items) = Len(ref)
        /\ \A j \in 1 .. Len(ref) : stack.items[j] = ref[Len(ref) - j + 1]

\* two pushes, then three pops: the second item, the first item, nil
C18_Witness ==
    /\ Len(stackLog) = 5
    /\ stackLog[1] = Call("Push", 1, Nil)
    /\ stackLog[2] = Call("Push", 2, Nil)
    /\ stackLog[3] = Call("Pop", Nil, 2)
    /\ stackLog[4] = Call("Pop", Nil, 1)
    /\ stackLog[5] = Call("Pop", Nil, Nil)
    /\ stack.items = <<>>

\* the items enqueued by the calls of h, in the order of the calls
Enqueued(h) ==
    LET calls == SelectSeq(h, LAMBDA c : c.op = "Enqueue")
    IN  [i \in 1 .. Len(calls) |-> calls[i].arg]

\* the Dequeue calls of h that found an item
RECURSIVE SuccessfulDequeues(_)
SuccessfulDequeues(h) ==
    IF h = <<>> THEN 0
    ELSE LET before == SubSeq(h, 1, Len(h) - 1)
             d == SuccessfulDequeues(before)
         IN  IF h[Len(h)].op = "Dequeue" /\ d < Len(Enqueued(before))
             THEN d + 1 ELSE d

\* C19: on a new Queue the n-th successful Dequeue returns the n-th item
\* enqueued, Front returns the item the next Dequeue would return, both
\* return nil on an empty queue, Size is the enqueues minus the successful
\* dequeues, IsEmpty whether that is zero; and the queue holds the items
\* enqueued and not yet dequeued, in their order.
C19_QueueFIFO ==
    /\ \A i \in 1 .. Len(queueLog) :
        LET h == SubSeq(queueLog, 1, i - 1)
            e == Enqueued(h)
            d == SuccessfulDequeues(h)
            c == queueLog[i]
        IN  CASE c.op \in {"Dequeue", "Front"} ->
                    c.ret = IF d < Len(e) THEN e[d + 1] ELSE Nil
              [] c.op = "Size" -> c.ret = Len(e) - d
              [] c.op = "IsEmpty" -> c.ret = (Len(e) = d)
              [] OTHER -> TRUE
    /\ LET e == Enqueued(queueLog)
           d == SuccessfulDequeues(queueLog)
       IN  queue.items = SubSeq(e, d + 1, Len(e))

\* two enqueues, then three dequeues: the first item, the second item, nil
C19_Witness ==
    /\ Len(queueLog) = 5
    /\ queueLog[1] = Call("Enqueue", 2, Nil)
    /\ queueLog[2] = Call("Enqueue", 1, Nil)
    /\ queueLog[3] = Call("Dequeue", Nil, 2)
    /\ queueLog[4] = Call("Dequeue", Nil, 1)
    /\ queueLog[5] = Call("Dequeue", Nil, Nil)
    /\ queue.items = <<>>

\* ret is what a search of search.arr for search.target has to return
RightAnswer(ret) ==
    IF \E i \in 1 .. Len(search.arr) : search.arr[i] = search.target
    THEN ret \in 0 .. Len(search.arr) - 1 /\ At(search.arr, ret) = search.target
    ELSE ret = -1

\* C20: on every ascending slice and every target BinarySearch and
\* BinarySearchRecursive both come to an end, within len(arr) + 1 loop tests
\* and invocations, and return the same value: an index of the target when it
\* occurs, -1 when it does not.
C20_BinarySearch ==
    /\ search.iter.steps <= Len(search.arr) + 1
    /\ search.rec.depth <= Len(search.arr) + 1
    /\ search.iter.pc = "done" => RightAnswer(search.iter.ret)
    /\ search.rec.pc = "done" => RightAnswer(search.rec.ret)
    /\ (search.iter.pc = "done" /\ search.rec.pc = "done")
          => search.iter.ret = search.rec.ret

\* both searches have returned the index of a target that stands, more than
\* once, in a slice of the greatest length
C20_Witness ==
    /\ search.iter.pc = "done" /\ search.rec.pc = "done"
    /\ Len(search.arr) = MaxLen
    /\ search.iter.ret >= 0
    /\ search.iter.steps > 1
    /\ Cardinality({i \in 1 .. Len(search.arr) : search.arr[i] = search.target}) > 1

\* how often v stands in the slice
Count(slice, v) == Cardinality({i \in 1 .. Len(slice) : slice[i] = v})

\* C21: QuickSort comes to an end, within 2 * len + 1 invocations, on every
\* slice; the slice holds a permutation of its original elements throughout
\* and is in non-decreasing order when QuickSort returns.
C21_QuickSort ==
    /\ sort.invocations <= 2 * Len(sort.input) + 1
    /\ Len(sort.arr) = Len(sort.input)
    /\ \A v \in 1 .. MaxValue : Count(sort.arr, v) = Count(sort.input, v)
    /\ sort.pc = "done" =>
          \A i \in 1 .. Len(sort.arr) - 1 : sort.arr[i] <= sort.arr[i + 1]

\* a slice of the greatest length, in descending order with a duplicate, has
\* been sorted
C21_Witness ==
    /\ sort.pc = "done"
    /\ Len(sort.input) = MaxLen
    /\ \A i \in 1 .. Len(sort.input) - 1 : sort.input[i] >= sort.input[i + 1]
    /\ \E i \in 1 .. Len(sort.input) - 1 : sort.input[i] = sort.input[i + 1]
    /\ sort.input[1] > sort.input[MaxLen]
    /\ sort.arr # sort.input

\* C22: the instance is constructed at most once, every reference
\* GetInstance has returned is that one non-nil instance, and GetData through
\* any reference returns the data last written through any reference.
C22_Singleton ==
    /\ Len(singleton.heap) <= 1
    /\ singleton.returned \subseteq {1}
    /\ singleton.returned # {} => singleton.instance = 1 /\ Len(singleton.heap) = 1
    /\ \A i \in Goroutines : singleton.g[i].got = singleton.g[i].expect

\* two goroutines raced through the first test of once.Do, one of them found
\* once done under the mutex; both hold the same reference and one has read
\* the data the other has set
C22_Witness ==
    \E i \in Goroutines : \E j \in Goroutines \ {i} :
        /\ singleton.g[i].pc = "has" /\ singleton.g[j].pc = "has"
        /\ singleton.g[i].lost
        /\ singleton.g[i].ref = singleton.g[j].ref
        /\ singleton.written = "test data"
        /\ singleton.g[j].got = "test data"
        /\ singleton.g[i].got = ""

\* C23: with MaxAttempts = n >= 1 and a context never cancelled, Retry invokes
\* fn at most n times and no more once fn has returned nil; it returns nil
\* exactly when the last invocation returned nil; otherwise it has invoked fn
\* n times, returns the error wrapping the n-th failure, and has slept n - 1
\* times, never after the final attempt.
C23_RetryAttempts ==
    (retry.MaxAttempts >= 1 /\ ~retry.cancelled) =>
        LET n == retry.MaxAttempts
            calls == Len(retry.outcomes)
        IN  /\ calls <= n
            /\ \A k \in 1 .. calls - 1 : retry.outcomes[k] # 0
            /\ retry.sleeps <= n - 1
            /\ retry.pc = "done" =>
                  /\ calls >= 1
                  /\ IF retry.outcomes[calls] = 0
                     THEN retry.ret = ReturnNil
                     ELSE /\ calls = n
                          /\ retry.ret = ReturnWrapped(retry.outcomes[n])
                          /\ retry.ret.err # 0
                          /\ retry.sleeps = n - 1

\* three attempts, all failed, no cancellation: the third failure is returned
C23_Witness ==
    /\ retry.pc = "done"
    /\ ~retry.cancelled
    /\ retry.MaxAttempts = 3
    /\ retry.outcomes = <<1, 2, 3>>
    /\ retry.ret = ReturnWrapped(3)
    /\ retry.sleeps = 2

\* C24: when ProcessJobs has returned to a started pool's caller and the
\* context was not cancelled, the two slices have the length of the batch
\* and, for every index, exactly one worker processed that job exactly once
\* and exactly one of results[i] and errors[i] is set, to the outcome that
\* worker's processJob has for jobs[i].
C24_ResultCorrespondence ==
    (pool.pc \in {"returned", "stopping", "stopped"} /\ ~pool.cancelled) =>
        /\ Len(pool.results) = Len(pool.jobs)
        /\ Len(pool.errors) = Len(pool.jobs)
        /\ \A k \in 1 .. Len(pool.jobs) :
              /\ Len(pool.processedBy[k]) = 1
              /\ \E w \in 1 .. pool.NumWorkers :
                    LET out == processJob(pool.Workers[w], pool.jobs[k])
                    IN  /\ pool.processedBy[k] = <<pool.Workers[w].ID>>
                        /\ (pool.results[k] # NilResult)
                              # (pool.errors[k] # NilError)
                        /\ IF out.err # NilError
                           THEN pool.errors[k] = out.err
                           ELSE pool.results[k] = out.result

\* a batch of two jobs processed by two different workers
C24_Witness ==
    /\ pool.pc = "returned"
    /\ ~pool.cancelled
    /\ Len(pool.jobs) = 2
    /\ pool.processedBy = <<<<1>>, <<0>>>>
    /\ pool.results = <<<<1, pool.jobs[1].ID, pool.jobs[1].Data>>,
                        <<0, pool.jobs[2].ID, pool.jobs[2].Data>>>>
    /\ pool.errors = <<NilError, NilError>>

\* the stages applied to a whole sequence, one after the other: a map for a
\* TransformStage, a keep-if-predicate for a FilterStage
RECURSIVE MapSeq(_, _)
MapSeq(stage, seq) ==
    IF seq = <<>> THEN <<>>
    ELSE <<Transform(stage, Head(seq))>> \o MapSeq(stage, Tail(seq))

RECURSIVE KeepSeq(_, _)
KeepSeq(stage, seq) ==
    IF seq = <<>> THEN <<>>
    ELSE (IF Predicate(stage, Head(seq)) THEN <<Head(seq)>> ELSE <<>>)
         \o KeepSeq(stage, Tail(seq))

RECURSIVE ApplyStages(_, _)
ApplyStages(stages, seq) ==
    IF stages = <<>> THEN seq
    ELSE ApplyStages(Tail(stages),
                     IF Head(stages) \in FilterStages
                     THEN KeepSeq(Head(stages), seq)
                     ELSE IF Head(stages) \in FanOutStages
                          THEN seq
                          ELSE MapSeq(Head(stages), seq))

\* C25: with no cancellation, what the pipeline has emitted is at every
\* moment a prefix of the stages applied in order to the input sequence, and
\* once the input is closed and the output has ended it is exactly that
\* sequence: input order kept, nothing lost, nothing duplicated.
C25_PipelineResult ==
    (/\ pipeline.pc = "running"
     /\ ~pipeline.cancelled
     /\ \A k \in DOMAIN pipeline.stages :
           pipeline.stages[k] \in TransformStages \cup FilterStages) =>
        LET expected == ApplyStages(pipeline.stages, pipeline.input)
        IN  /\ Len(pipeline.out) <= Len(expected)
            /\ pipeline.out = SubSeq(expected, 1, Len(pipeline.out))
            /\ pipeline.consumer = "done" =>
                  /\ pipeline.closed[1]
                  /\ pipeline.out = expected

\* the example's stages on <<1, 3>>: double, filter, stringify
C25_Witness ==
    /\ pipeline.consumer = "done"
    /\ ~pipeline.cancelled
    /\ pipeline.input = <<1, 3>>
    /\ pipeline.stages = <<"double", "filter", "stringify">>
    /\ pipeline.out = <<[processed |-> 6]>>

\* C26: within one NotifyObservers call no observer is notified twice, and
\* when the call returns every observer that was subscribed when the call
\* was made, and whose ID no Subscribe or Unsubscribe touched during the
\* call, has been notified exactly once and its Notify has returned; an
\* untouched observer that was not subscribed is never notified.
C26_EventBusNotify ==
    LET n == bus.notify
        untouched == {o \in Observers : GetID(o) \notin n.touched}
    IN  /\ \A o \in Observers : n.delivered[o] <= 1
        /\ \A o \in untouched \ n.atCall : n.delivered[o] = 0
        /\ n.pc = "returned" =>
              /\ n.notifying = {} /\ n.spawned = {}
              /\ \A o \in untouched \cap n.atCall :
                    n.delivered[o] = 1 /\ o \in n.completed

\* a call during which observer 3 was unsubscribed returns after observer 1,
\* subscribed all along, has been notified once
C26_Witness ==
    /\ bus.notify.pc = "returned"
    /\ bus.notify.atCall = {1, 3}
    /\ bus.notify.touched = {GetID(3)}
    /\ bus.observers = {1}
    /\ bus.notify.delivered[1] = 1
    /\ 1 \in bus.notify.completed

\* C27: a call of IsRetryable returns, and returns true exactly when its
\* argument is a RetryableError whose Retryable flag is true; it returns
\* false for a RetryableError whose flag is false, for any other error and
\* for nil.
C27_IsRetryableClassifies ==
    classify.pc \in {"returned", "panicked"} =>
        LET wraps == classify.err.wraps
        IN  classify.ret =
               IF wraps # <<>> /\ Head(wraps) THEN "true" ELSE "false"

\* C28 (as claimed): while a pass of an owner is between its fetch and its
\* return the owner's stored phase is "Reconciling"; in particular it does
\* not read "Ready" before the pass has succeeded.
C28_PhaseWhileInProgress ==
    \A o \in Idents :
        (InFlight(o) /\ webservers[o].uid # 0) =>
            webservers[o].status.phase = "Reconciling"

\* C29: a pass writes the owner's status only from its last step, reached
\* after the create-or-update of all three dependents and the read of the
\* Deployment succeeded in that pass; that write ends the pass, which writes
\* nothing to the store after it; and a pass that returns from an earlier
\* step has written no status and leaves the stored owner as it was.
C29_StatusWrittenLast ==
    [][\A o \in Idents :
          /\ (~pass[o].statusWritten /\ pass'[o].statusWritten) =>
                /\ pass[o].pc = "statusUpdate"
                /\ \A k \in Kinds : Converged(o, k)
                /\ pass'[o].pc = "done"
                /\ pass'[o].writes = pass[o].writes + 1
                /\ objects' = objects
          /\ (pass[o].statusWritten /\ pass'[o].statusWritten) =>
                pass'[o].writes = pass[o].writes
          /\ (InFlight(o) /\ pass[o].pc # "statusUpdate" /\ pass'[o].pc = "done") =>
                /\ ~pass'[o].statusWritten
                /\ webservers'[o] = webservers[o]
          /\ (pass'[o] # pass[o] /\ webservers'[o] # webservers[o]) =>
                pass'[o].statusWritten]_vars

\* a first pass that created the three dependents and then wrote the status
\* as its fourth and last write
C29_Witness ==
    \E o \in Idents :
        /\ pass[o].pc = "done"
        /\ pass[o].statusWritten
        /\ pass[o].writes = 4
        /\ webservers[o].status.phase = "Ready"

\* the stored observed generation of an existing owner is not ahead of it
ObservedNotAhead ==
    \A o \in Idents :
        webservers[o].uid # 0 =>
            webservers[o].status.observedGeneration <= webservers[o].generation

\* C30: the status write that makes a pass successful stores, as
\* status.observedGeneration, the generation of the owner object the pass
\* fetched at its start; and in every reachable state the stored
\* status.observedGeneration of an owner is at most its current generation.
C30_ObservedGeneration ==
    /\ []ObservedNotAhead
    /\ [][\A o \in Idents :
            (~pass[o].statusWritten /\ pass'[o].statusWritten) =>
                /\ pass[o].ws.generation = webservers[o].generation
                /\ webservers'[o].status.observedGeneration
                      = pass[o].ws.generation]_vars

\* a successful pass of an owner at its second generation
C30_Witness ==
    \E o \in Idents :
        /\ JustSucceeded(o)
        /\ webservers[o].generation = 2
        /\ webservers[o].status.observedGeneration = 2

\* C31: when a pass has succeeded and nothing else has written since, the
\* three stored dependents of the owner fit together: the Deployment's volume
\* names the owner's ConfigMap (name-config), which exists; the Deployment's
\* selector equals its pod-template labels and so does the Service's
\* selector; the Service's targetPort equals the container port, which is
\* the defaulted spec.port; and the Service's own port is 80.
C31_DependentsConsistent ==
    \A o \in Idents :
        JustSucceeded(o) =>
            LET dep   == objects[DepKey("Deployment", o.namespace, o.name)]
                svc   == objects[DepKey("Service", o.namespace, o.name)]
                cmKey == DepKey("ConfigMap", o.namespace, o.name)
                pod   == dep.spec.template
            IN  /\ dep.exists /\ svc.exists /\ objects[cmKey].exists
                /\ Len(pod.volumes) = 1
                /\ pod.volumes[1].configMap = cmKey.name
                /\ cmKey.name = o.name \o "-config"
                /\ dep.spec.selector = pod.labels
                /\ svc.spec.selector = pod.labels
                /\ pod.labels["instance"] = o.name
                /\ Len(svc.spec.ports) = 1
                /\ svc.spec.ports[1].targetPort
                      = pod.containers[1].ports[1].containerPort
                /\ svc.spec.ports[1].targetPort
                      = SetDefaults(webservers[o].spec).port
                /\ svc.spec.ports[1].port = 80

\* a successful pass for an owner with its own port: the Service targets
\* 8080 on port 80
C31_Witness ==
    \E o \in Idents :
        /\ JustSucceeded(o)
        /\ webservers[o].spec.port = 8080
        /\ objects[DepKey("Service", o.namespace, o.name)].spec.ports[1].targetPort = 8080
        /\ objects[DepKey("Deployment", o.namespace, o.name)]
              .spec.template.containers[1].ports[1].containerPort = 8080

\* what the code does instead: while the context is not cancelled at most
\* one job of the batch is in processing at any moment, whatever the number
\* of workers (ProcessJobs waits for each job before it submits the next)
ProcessJobsOneAtATime ==
    ~pool.cancelled => pool.maxBusy <= 1 /\ Busy(pool.Workers) <= 1

\* C32 (as claimed, for a context that is not cancelled): a batch of at
\* least two jobs on a pool of at least two started workers is processed
\* concurrently: by the time ProcessJobs returns, two jobs of the batch have
\* been in processing by different workers at the same time.
C32_BatchConcurrency ==
    (/\ pool.pc \in {"returned", "stopping", "stopped"}
     /\ ~pool.cancelled
     /\ pool.NumWorkers >= 2
     /\ Len(pool.jobs) >= 2) => pool.maxBusy >= 2

\* C33 (as claimed): once Stop has been called on a started pool it
\* eventually returns, with every worker goroutine exited, whatever was
\* submitted through SubmitJob or ProcessJobs before.
C33_StopTerminates ==
    (pool.pc = "stopping") ~>
        (/\ pool.pc = "stopped"
         /\ \A k \in 1 .. pool.NumWorkers : pool.Workers[k].pc = "exited")

\* job k of the batch has been sent to the job queue: it waits there, a
\* worker holds it, or a worker has processed it
Sent(k) ==
    \/ \E n \in DOMAIN pool.JobQueue : pool.JobQueue[n].idx = k
    \/ \E w \in DOMAIN pool.Workers :
          pool.Workers[w].pc = "processing" /\ pool.Workers[w].job.idx = k
    \/ pool.processedBy[k] # <<>>

\* C34: every job ProcessJobs has gone past, and in particular every job it
\* reports with the context's error, has been sent to the job queue before,
\* cancelled context or not; when ProcessJobs returns the whole batch has
\* been sent. (That such a job can still be processed is the witness.)
C34_EnqueuedRegardless ==
    \A k \in 1 .. Len(pool.jobs) :
        /\ pool.errors[k] = CtxErr => Sent(k)
        /\ (k <= pool.i \/ pool.pc \in {"returned", "stopping", "stopped"})
              => Sent(k)

\* both jobs of a batch are reported as cancelled and ProcessJobs has
\* returned; the second one, sent after the cancellation, is in processing
\* by a worker all the same
C34_Witness ==
    /\ pool.pc = "returned"
    /\ pool.cancelled
    /\ Len(pool.jobs) = 2
    /\ pool.errors = <<CtxErr, CtxErr>>
    /\ pool.results = <<NilResult, NilResult>>
    /\ \E w \in DOMAIN pool.Workers :
          pool.Workers[w].pc = "processing" /\ pool.Workers[w].job.idx = 2

\* every goroutine started by Pipeline.Process and by the stages has
\* returned and every stage's output channel is closed
PipelineShutDown ==
    /\ \A j \in DOMAIN pipeline.procs :
          /\ pipeline.closed[j + 1]
          /\ \A w \in DOMAIN pipeline.procs[j] :
                pipeline.procs[j][w].pc = "done"

\* C35 (as claimed): once the input channel is closed or the context is
\* cancelled, with a consumer that keeps receiving, eventually every
\* goroutine of the pipeline and of its stages has exited and every stage's
\* output channel is closed.
C35_PipelineShutdown ==
    (pipeline.pc = "running" /\ (pipeline.closed[1] \/ pipeline.cancelled))
        ~> PipelineShutDown

\* the stages of the running pipeline that are FanOutStages
FanOutsRunning ==
    {j \in DOMAIN pipeline.procs : StageOf(j) \in FanOutStages}

\* the values of a sequence
RangeOf(seq) == {seq[i] : i \in DOMAIN seq}

\* C36: a FanOutStage delivers exactly once. Its output is never closed
\* while one of its workers is still running. With no cancellation and
\* NumWorkers >= 1, no item is emitted more often than it came in, and once
\* the output has ended it holds every item of the input exactly once (a
\* permutation of what the other stages make of the input; the order is
\* free). With NumWorkers = 0 the stage emits nothing and the close of its
\* output is due from the start.
C36_FanOutExactlyOnce ==
    (pipeline.pc = "running" /\ FanOutsRunning # {}) =>
       LET expected == ApplyStages(pipeline.stages, pipeline.input)
           values == RangeOf(expected) \cup RangeOf(pipeline.out)
       IN  /\ \A j \in FanOutsRunning :
                pipeline.closed[j + 1] =>
                   \A w \in DOMAIN pipeline.procs[j] :
                      pipeline.procs[j][w].pc = "done"
           /\ (~pipeline.cancelled /\ pipeline.NumWorkers >= 1) =>
                 /\ \A v \in values :
                       Count(pipeline.out, v) <= Count(expected, v)
                 /\ pipeline.consumer = "done" =>
                       \A v \in values :
                          Count(pipeline.out, v) = Count(expected, v)
           /\ pipeline.NumWorkers = 0 =>
                 /\ pipeline.out = <<>>
                 /\ \A j \in FanOutsRunning :
                       pipeline.closed[j + 1] \/ ENABLED FanOutWait(j)

\* two workers have passed the two items of the input on in the other
\* order, and the output has ended
C36_Witness ==
    /\ pipeline.pc = "running"
    /\ pipeline.stages = <<"fanout">>
    /\ pipeline.NumWorkers = 2
    /\ ~pipeline.cancelled
    /\ pipeline.input = <<1, 2>>
    /\ pipeline.out = <<2, 1>>
    /\ pipeline.consumer = "done"

\* a FanOutStage without workers has closed its output and emitted nothing
\* while an item of the input is still to come
C36_WitnessNoWorkers ==
    /\ pipeline.pc = "running"
    /\ pipeline.stages = <<"fanout">>
    /\ pipeline.NumWorkers = 0
    /\ pipeline.input # <<>>
    /\ pipeline.closed[3]
    /\ pipeline.out = <<>>
    /\ pipeline.consumer = "done"

\* the ctx.Done case of the select that waits out the delay
RetrySleepCtxDone == RetrySleep /\ retry'.ret = ReturnCtxErr /\ retry'.pc = "done"

\* a cancellation that arrives during a delay: the return of the context's
\* error is ready at once, and whichever case the select takes Retry
\* returns the context's error
CancelledInDelay ==
    (retry.cancelled /\ retry.cancelledAt = "sleep") =>
       /\ retry.pc = "sleep" => ENABLED RetrySleepCtxDone
       /\ retry.pc = "done" => retry.ret = ReturnCtxErr

\* C37 (as claimed): once the context is cancelled Retry starts no further
\* invocation of fn, and a cancellation that arrives during a delay makes
\* Retry return the context's error without waiting out the delay.
C37_NoInvocationOnceCancelled ==
    /\ retry.cancelled => Len(retry.outcomes) = retry.callsAtCancel
    /\ CancelledInDelay

\* C37 (amended): Retry tests the context at the top of each iteration only:
\* once the context is cancelled Retry starts at most one further invocation
\* of fn, and only the one whose test had passed before the cancellation;
\* a cancellation that arrives during a delay makes Retry return the
\* context's error without waiting out the delay.
C37_HonoursCancellationAtCheck ==
    /\ retry.cancelled =>
          /\ Len(retry.outcomes) <= retry.callsAtCancel + 1
          /\ Len(retry.outcomes) > retry.callsAtCancel =>
                retry.cancelledAt = "fn"
          /\ retry.pc = "fn" => retry.cancelledAt = "fn"
    /\ CancelledInDelay

\* the context was cancelled during the first delay and Retry returned its
\* error after the one invocation made before
C37_Witness ==
    /\ retry.pc = "done"
    /\ retry.MaxAttempts = 3
    /\ retry.cancelled
    /\ retry.cancelledAt = "sleep"
    /\ retry.outcomes = <<1>>
    /\ retry.ret = ReturnCtxErr

\* without jitter the delay Retry waits out is the capped backoff
DelayCappedWithoutJitter ==
    (retry.pc = "sleep" /\ ~retry.Jitter) =>
       /\ retry.delay <= retry.MaxDelay
       /\ retry.delay =
             CapAtMaxDelay(retry, retry.BaseDelay *
                                  Pow(retry.Multiplier, retry.attempt))

\* C38 (as claimed): for every attempt and with jitter on or off, the delay
\* calculateDelay returns is never greater than config.MaxDelay.
C38_DelayCapped ==
    retry.pc = "sleep" => retry.delay <= retry.MaxDelay

====
